---- MODULE Spec2Model ----
(***************************************************************************)
(* Model of the Vulkan registry ingestion of the `analysis` crate:         *)
(*   xml.rs  - Registry::from_node and the per-entity from_node builders,  *)
(*   lib.rs  - Analysis::new, Library::collect_into,                       *)
(*   items/  - Items::collect.                                             *)
(* An XML node is a record [type, tag, attrs, children, text]: an Element  *)
(* has a tag, attributes and children, a Text node has a text, which is    *)
(* its sequence of lexemes.  attrs is a function from attribute names to   *)
(* values, so that a missing attribute is a name outside its domain.       *)
(* Attribute values that the code parses (api, supported, feature names)   *)
(* are sequences of characters; the others are strings.                    *)
(***************************************************************************)
EXTENDS Integers, Sequences, FiniteSets, TLC

VARIABLES pc, registry, types_require_map, items, cursor

vars == <<pc, registry, types_require_map, items, cursor>>

\* Option: None is the empty sequence, Some(x) the one-element sequence.
None == <<>>

Some(x) == <<x>>

\* A node without attributes.
NoAttrs == <<>>

(***************************************************************************)
(* Bounds of the model.                                                    *)
(***************************************************************************)
\* Entities recorded in the two registries together (pipeline
\* specification).
MaxNodes == 4

(***************************************************************************)
(* Strings as character sequences.                                         *)
(***************************************************************************)
vulkan == <<"v", "u", "l", "k", "a", "n">>

vulkansc == vulkan \o <<"s", "c">>

disabled == <<"d", "i", "s", "a", "b", "l", "e", "d">>

VK_VERSION_ == <<"V", "K", "_", "V", "E", "R", "S", "I", "O", "N", "_">>

\* str::split(sep): the pieces of s between the occurrences of sep; always
\* at least one piece (the empty string splits into one empty piece).
RECURSIVE SplitFrom(_, _, _)
SplitFrom(s, sep, piece) ==
    IF s = <<>> THEN <<piece>>
    ELSE IF Head(s) = sep THEN <<piece>> \o SplitFrom(Tail(s), sep, <<>>)
    ELSE SplitFrom(Tail(s), sep, Append(piece, Head(s)))

split(s, sep) == SplitFrom(s, sep, <<>>)

\* str::strip_prefix
strip_prefix(s, prefix) ==
    IF Len(s) >= Len(prefix) /\ SubSeq(s, 1, Len(prefix)) = prefix
    THEN Some(SubSeq(s, Len(prefix) + 1, Len(s)))
    ELSE None

DigitValue(c) ==
    CASE c = "0" -> 0 [] c = "1" -> 1 [] c = "2" -> 2 [] c = "3" -> 3
      [] c = "4" -> 4 [] c = "5" -> 5 [] c = "6" -> 6 [] c = "7" -> 7
      [] c = "8" -> 8 [] c = "9" -> 9 [] OTHER -> -1

\* The value of a digit string, -1 when a character is no digit or the
\* value overflows.  The arithmetic here is 32-bit signed, so the overflow
\* limit is 2^31 where u32's is 2^32; the digit strings of this model have
\* fewer than ten digits and reach neither.
RECURSIVE ParseDigits(_, _)
ParseDigits(s, acc) ==
    IF s = <<>> THEN acc
    ELSE IF DigitValue(Head(s)) < 0 THEN -1
    ELSE IF acc > (2147483647 - DigitValue(Head(s))) \div 10 THEN -1
    ELSE ParseDigits(Tail(s), acc * 10 + DigitValue(Head(s)))

\* <u32 as FromStr>::from_str: an optional '+', then at least one digit,
\* the value below 2^32; None stands for Err, Some(n) for Ok(n).
ParseU32(s) ==
    LET digits == IF s # <<>> /\ Head(s) = "+" THEN Tail(s) ELSE s
    IN  IF digits = <<>> \/ ParseDigits(digits, 0) < 0 THEN None
        ELSE Some(ParseDigits(digits, 0))

\* <u8 as FromStr>::from_str
ParseU8(s) ==
    IF ParseU32(s) # None /\ ParseU32(s)[1] < 256 THEN ParseU32(s) ELSE None

(***************************************************************************)
(* xml.rs: attribute access and the API filter.                            *)
(***************************************************************************)
has_attribute(node, name) == name \in DOMAIN node.attrs

attribute(node, name) ==
    IF name \in DOMAIN node.attrs THEN Some(node.attrs[name]) ELSE None

\* attribute_comma_separated: the ','-separated values, none when absent.
attribute_comma_separated(node, name) ==
    IF has_attribute(node, name) THEN split(node.attrs[name], ",") ELSE <<>>

has_tag_name(node, name) == node.tag = name

\* values.split(',').any(|value| value == expected)
AnyValueIs(values, expected) ==
    \E i \in DOMAIN split(values, ",") : split(values, ",")[i] = expected

\* api_matches by values.contains(expected).
api_matchesContains(node, expected) ==
    IF has_attribute(node, "api")
    THEN \E i \in 1..Len(node.attrs["api"]), j \in 0..Len(node.attrs["api"]) :
             SubSeq(node.attrs["api"], i, j) = expected
    ELSE TRUE

api_matches(node, expected) ==
    IF has_attribute(node, "api")
    THEN AnyValueIs(node.attrs["api"], expected)
    ELSE TRUE

\* The filter of `extension` nodes applied to their `api` attribute.
supported_matchesApi(node, api) ==
    IF has_attribute(node, "api")
    THEN AnyValueIs(node.attrs["api"], api)
    ELSE TRUE

\* The filter of `extension` nodes by their `supported` attribute.
supported_matches(node, api) ==
    IF has_attribute(node, "supported")
    THEN AnyValueIs(node.attrs["supported"], api)
    ELSE TRUE

\* make_xml_str(node.text_storage()): the text of a Text node; for an
\* element the text of its first child when that is a Text node.
text_storage(node) ==
    IF node.type = "Text" THEN Some(node.text)
    ELSE IF node.children # <<>> /\ Head(node.children).type = "Text"
    THEN Some(Head(node.children).text)
    ELSE None

\* child_text: the text of the first child element named `name`; it
\* panics when that child has no text.
ChildNamed(node, name) ==
    SelectSeq(node.children, LAMBDA c : has_tag_name(c, name))

child_textPanics(node, name) ==
    ChildNamed(node, name) # <<>> /\ text_storage(Head(ChildNamed(node, name))) = None

child_text(node, name) ==
    IF ChildNamed(node, name) = <<>> THEN None
    ELSE text_storage(Head(ChildNamed(node, name)))

(***************************************************************************)
(* cdecl: the tokens and the declarator parser.  A raw text run is a       *)
(* sequence of lexemes; a token is [kind, text].                           *)
(***************************************************************************)
Punctuation == {"*", "[", "]", "(", ")", ",", ":", ";"}

Keywords == {"const", "struct", "typedef", "unsigned"}

Literals == {"2", "4"}

\* Lexemes no token starts with.
BadLexemes == {"@"}

Tok(kind, text) == [kind |-> kind, text |-> text]

\* CTok::lex_into on one lexeme.
LexemeKind(lexeme) ==
    IF lexeme \in Punctuation THEN "Punct"
    ELSE IF lexeme \in Keywords THEN "Keyword"
    ELSE IF lexeme \in Literals THEN "Literal"
    ELSE "StrayIdent"

lex_intoFails(text) == \E i \in DOMAIN text : text[i] \in BadLexemes

lex_into(text) == [i \in DOMAIN text |-> Tok(LexemeKind(text[i]), text[i])]

CDeclModes == {"TypeDef", "StructMember", "FuncParam"}

\* CType
Base(name) == [kind |-> "Base", name |-> name]

Ptr(is_const, pointee) == [kind |-> "Ptr", is_const |-> is_const, pointee |-> pointee]

Array(len, elem) == [kind |-> "Array", len |-> len, elem |-> elem]

Func(ret) == [kind |-> "Func", ret |-> ret]

\* CType::VOID
CType_VOID == Base("void")

IsTok(toks, i, kind, text) ==
    i <= Len(toks) /\ toks[i].kind = kind /\ toks[i].text = text

IsKind(toks, i, kind) == i <= Len(toks) /\ toks[i].kind = kind

\* The pointer wrappers started at token i: [ty, next].
RECURSIVE ParsePointers(_, _, _, _)
ParsePointers(toks, i, ty, pointee_const) ==
    IF IsTok(toks, i, "Punct", "*")
    THEN IF IsTok(toks, i + 1, "Keyword", "const")
         THEN ParsePointers(toks, i + 2, Ptr(pointee_const, ty), TRUE)
         ELSE ParsePointers(toks, i + 1, Ptr(pointee_const, ty), FALSE)
    ELSE [ty |-> ty, next |-> i]

\* The array dimensions started at token i, outermost first: [dims, next],
\* next = 0 when a dimension is neither a literal nor an enum constant.
RECURSIVE ParseDims(_, _)
ParseDims(toks, i) ==
    IF IsTok(toks, i, "Punct", "[")
    THEN IF (IsKind(toks, i + 1, "Literal") \/ IsKind(toks, i + 1, "ValueName"))
            /\ IsTok(toks, i + 2, "Punct", "]")
         THEN LET rest == ParseDims(toks, i + 3)
              IN  [dims |-> <<toks[i + 1]>> \o rest.dims, next |-> rest.next]
         ELSE [dims |-> <<>>, next |-> 0]
    ELSE [dims |-> <<>>, next |-> i]

RECURSIVE WrapArrays(_, _)
WrapArrays(ty, dims) ==
    IF dims = <<>> THEN ty
    ELSE Array(Head(dims), WrapArrays(ty, Tail(dims)))

\* CDecl::parse: Some([ty, name]) or None (Err).
CDecl_parse(mode, toks) ==
    LET i0 == IF mode = "TypeDef" /\ IsTok(toks, 1, "Keyword", "typedef") THEN 2 ELSE 1
        is_const == IsTok(toks, i0, "Keyword", "const")
        i1 == IF is_const THEN i0 + 1 ELSE i0
        i2 == IF IsTok(toks, i1, "Keyword", "struct") THEN i1 + 1 ELSE i1
    IN  IF ~IsKind(toks, i2, "TypeName") THEN None
        ELSE
        LET p == ParsePointers(toks, i2 + 1, Base(toks[i2].text), is_const)
            j == p.next
        IN  IF IsKind(toks, j, "DeclName")
            THEN LET d == IF mode = "TypeDef"
                          THEN [dims |-> <<>>, next |-> j + 1]
                          ELSE ParseDims(toks, j + 1)
                     k == IF mode # "TypeDef" /\ d.next # 0
                             /\ IsTok(toks, d.next, "Punct", ":")
                             /\ IsKind(toks, d.next + 1, "Literal")
                          THEN d.next + 2 ELSE d.next
                     end == IF IsTok(toks, k, "Punct", ";") THEN k + 1 ELSE k
                 IN  IF d.next # 0 /\ end = Len(toks) + 1
                     THEN Some([ty |-> WrapArrays(p.ty, d.dims), name |-> toks[j].text])
                     ELSE None
            ELSE IF /\ mode = "TypeDef"
                    /\ IsTok(toks, j, "Punct", "(") /\ IsTok(toks, j + 1, "Punct", "*")
                    /\ IsKind(toks, j + 2, "DeclName") /\ IsTok(toks, j + 3, "Punct", ")")
                    /\ IsTok(toks, j + 4, "Punct", "(") /\ IsTok(toks, j + 5, "TypeName", "void")
                    /\ IsTok(toks, j + 6, "Punct", ")") /\ IsTok(toks, j + 7, "Punct", ";")
                    /\ Len(toks) = j + 7
                 THEN Some([ty |-> Func(p.ty), name |-> toks[j + 2].text])
                 ELSE None

(***************************************************************************)
(* xml.rs: CDecl::from_xml.                                                *)
(***************************************************************************)
\* Whether the loop over the children panics at `child`.
\* As ChildLexPanics, but a `comment` that has children fails the
\* assertion on the number of children.
ChildLexPanicsCountingComments(child) ==
    IF child.type = "Text" THEN lex_intoFails(child.text)
    ELSE \/ child.attrs # NoAttrs
         \/ child.tag \notin {"type", "enum", "name", "comment"}
         \/ child.tag = "comment" /\ child.children # <<>>
         \/ child.tag # "comment" /\ Len(child.children) # 1
         \/ child.tag # "comment" /\ text_storage(child) = None

ChildLexPanics(child) ==
    IF child.type = "Text" THEN lex_intoFails(child.text)
    ELSE \/ child.attrs # NoAttrs
         \/ /\ child.tag # "comment"
            /\ \/ child.tag \notin {"type", "enum", "name"}
               \/ Len(child.children) # 1
               \/ text_storage(child) = None

\* The tokens one child contributes.
ChildTokens(child) ==
    IF child.type = "Text" THEN lex_into(child.text)
    ELSE IF child.tag = "comment" THEN <<>>
    ELSE IF child.tag = "type" THEN <<Tok("TypeName", text_storage(child)[1])>>
    ELSE IF child.tag = "enum" THEN <<Tok("ValueName", text_storage(child)[1])>>
    ELSE <<Tok("DeclName", text_storage(child)[1])>>

RECURSIVE LexChildren(_)
LexChildren(children) ==
    IF children = <<>> THEN <<>>
    ELSE ChildTokens(Head(children)) \o LexChildren(Tail(children))

\* As Reclassify, but by spelling alone, whatever the kind of the token.
ReclassifyAnyKind(tok) ==
    IF tok.text \in {"STD_VIDEO_H264_MAX_NUM_LIST_REF", "STD_VIDEO_H265_MAX_NUM_LIST_REF"}
    THEN Tok("ValueName", tok.text)
    ELSE IF tok.text \in {"VkBool32", "PFN_vkVoidFunction"}
    THEN Tok("TypeName", tok.text)
    ELSE tok

\* The first half of the retain_mut closure: the table of mis-annotated
\* identifiers.
Reclassify(tok) ==
    IF tok.kind = "StrayIdent"
    THEN IF tok.text \in {"STD_VIDEO_H264_MAX_NUM_LIST_REF", "STD_VIDEO_H265_MAX_NUM_LIST_REF"}
         THEN Tok("ValueName", tok.text)
         ELSE IF tok.text \in {"VkBool32", "PFN_vkVoidFunction"}
         THEN Tok("TypeName", tok.text)
         ELSE tok
    ELSE tok

\* The second half: whether the token is retained.
Retained(tok) == ~(tok.kind = "StrayIdent" /\ tok.text = "VKAPI_PTR")

FixUp(c_tokens) ==
    SelectSeq([i \in DOMAIN c_tokens |-> Reclassify(c_tokens[i])], Retained)

\* The token sequence handed to CDecl::parse.
c_tokens_of(children) == FixUp(LexChildren(children))

CDecl_from_xmlPanics(mode, children) ==
    \/ \E i \in DOMAIN children : ChildLexPanics(children[i])
    \/ CDecl_parse(mode, c_tokens_of(children)) = None

CDecl_from_xml(mode, children) == CDecl_parse(mode, c_tokens_of(children))[1]

(***************************************************************************)
(* xml.rs: the entity builders.  For a builder X_from_node, XPanics(node)  *)
(* tells whether it panics (an unwrap of a missing attribute or of a       *)
(* failed parse); X_from_node(node) is its value when it does not.         *)
(***************************************************************************)
\* Registry::default()
RegistryDefault ==
    [externals |-> <<>>, basetypes |-> <<>>, bitmask_types |-> <<>>,
     bitmask_aliases |-> <<>>, handles |-> <<>>, handle_aliases |-> <<>>,
     enum_types |-> <<>>, enum_aliases |-> <<>>, funcpointers |-> <<>>,
     structs |-> <<>>, struct_aliases |-> <<>>, unions |-> <<>>,
     constants |-> <<>>, constant_aliases |-> <<>>, enums |-> <<>>,
     bitmasks |-> <<>>, commands |-> <<>>, command_aliases |-> <<>>,
     features |-> <<>>, extensions |-> <<>>]

ChildrenWhere(node, Pred(_)) == SelectSeq(node.children, Pred)

AliasPanics(node) ==
    ~has_attribute(node, "name") \/ ~has_attribute(node, "alias")

Alias_from_node(node) ==
    [name |-> node.attrs["name"], alias |-> node.attrs["alias"]]

ExternalPanics(node) == ~has_attribute(node, "name")

External_from_node(node) ==
    [name |-> node.attrs["name"], requires |-> attribute(node, "requires")]

BaseTypePanics(node) ==
    \/ child_textPanics(node, "name") \/ child_text(node, "name") = None
    \/ child_textPanics(node, "type")

BaseType_from_node(node) ==
    [name |-> child_text(node, "name")[1], ty |-> child_text(node, "type")]

BitMaskTypePanics(node) ==
    \/ child_textPanics(node, "type") \/ child_text(node, "type") = None
    \/ child_textPanics(node, "name") \/ child_text(node, "name") = None

BitMaskType_from_node(node) ==
    [requires |-> attribute(node, "requires"),
     bitvalues |-> attribute(node, "bitvalues"),
     ty |-> child_text(node, "type")[1],
     name |-> child_text(node, "name")[1]]

HandlePanics(node) ==
    \/ ~has_attribute(node, "objtypeenum")
    \/ child_textPanics(node, "type") \/ child_text(node, "type") = None
    \/ child_textPanics(node, "name") \/ child_text(node, "name") = None

Handle_from_node(node) ==
    [parent |-> attribute(node, "parent"),
     objtypeenum |-> node.attrs["objtypeenum"],
     ty |-> child_text(node, "type")[1],
     name |-> child_text(node, "name")[1]]

EnumTypePanics(node) == ~has_attribute(node, "name")

EnumType_from_node(node) == [name |-> node.attrs["name"]]

FuncPointerPanics(node) == CDecl_from_xmlPanics("TypeDef", node.children)

FuncPointer_from_node(node) ==
    [c_decl |-> CDecl_from_xml("TypeDef", node.children),
     requires |-> attribute(node, "requires")]

StructureMemberPanics(node) == CDecl_from_xmlPanics("StructMember", node.children)

StructureMember_from_node(node) ==
    [c_decl |-> CDecl_from_xml("StructMember", node.children),
     values |-> attribute(node, "values"),
     len |-> attribute_comma_separated(node, "len"),
     altlen |-> attribute_comma_separated(node, "altlen"),
     optional |-> attribute_comma_separated(node, "optional")]

MemberNodes(node, api) ==
    ChildrenWhere(node, LAMBDA c : has_tag_name(c, "member") /\ api_matches(c, api))

StructurePanics(node, api) ==
    \/ ~has_attribute(node, "name")
    \/ \E i \in DOMAIN MemberNodes(node, api) :
           StructureMemberPanics(MemberNodes(node, api)[i])

Structure_from_node(node, api) ==
    [name |-> node.attrs["name"],
     structextends |-> attribute_comma_separated(node, "structextends"),
     members |-> [i \in DOMAIN MemberNodes(node, api) |->
                     StructureMember_from_node(MemberNodes(node, api)[i])]]

ConstantPanics(node) ==
    \/ ~has_attribute(node, "type") \/ ~has_attribute(node, "value")
    \/ ~has_attribute(node, "name")

Constant_from_node(node) ==
    [ty |-> node.attrs["type"], value |-> node.attrs["value"],
     name |-> node.attrs["name"]]

EnumValuePanics(node) ==
    ~has_attribute(node, "value") \/ ~has_attribute(node, "name")

EnumValue_from_node(node) ==
    [value |-> node.attrs["value"], name |-> node.attrs["name"]]

\* The `enum` children of an `enums` group that apply to the API.
VariantNodes(node, api) ==
    ChildrenWhere(node, LAMBDA c : has_tag_name(c, "enum") /\ api_matches(c, api))

EnumPanics(node, api) ==
    \/ ~has_attribute(node, "name")
    \/ \E i \in DOMAIN VariantNodes(node, api) :
           LET variant == VariantNodes(node, api)[i]
           IN  IF has_attribute(variant, "alias") THEN AliasPanics(variant)
               ELSE EnumValuePanics(variant)

Enum_from_node(node, api) ==
    LET variants == VariantNodes(node, api)
        als  == SelectSeq(variants, LAMBDA v : has_attribute(v, "alias"))
        vals == SelectSeq(variants, LAMBDA v : ~has_attribute(v, "alias"))
    IN  [name |-> node.attrs["name"],
         values |-> [i \in DOMAIN vals |-> EnumValue_from_node(vals[i])],
         aliases |-> [i \in DOMAIN als |-> Alias_from_node(als[i])]]

BitMaskBitPanics(node) ==
    ~has_attribute(node, "bitpos") \/ ~has_attribute(node, "name")

BitMaskBit_from_node(node) ==
    [bitpos |-> node.attrs["bitpos"], name |-> node.attrs["name"]]

\* As BitMaskVariantList, with `value` tested before `alias`.
BitMaskVariantListValueFirst(variant) ==
    IF has_attribute(variant, "value") THEN "values"
    ELSE IF has_attribute(variant, "alias") THEN "aliases"
    ELSE "bits"

\* The sequence of a BitMask that a variant goes to.
BitMaskVariantList(variant) ==
    IF has_attribute(variant, "alias") THEN "aliases"
    ELSE IF has_attribute(variant, "value") THEN "values"
    ELSE "bits"

BitMaskPanics(node, api) ==
    \/ ~has_attribute(node, "name")
    \/ \E i \in DOMAIN VariantNodes(node, api) :
           LET variant == VariantNodes(node, api)[i]
           IN  CASE BitMaskVariantList(variant) = "aliases" -> AliasPanics(variant)
                 [] BitMaskVariantList(variant) = "values" -> EnumValuePanics(variant)
                 [] OTHER -> BitMaskBitPanics(variant)

BitMask_from_node(node, api) ==
    LET Of(list) == SelectSeq(VariantNodes(node, api),
                              LAMBDA v : BitMaskVariantList(v) = list)
    IN  [name |-> node.attrs["name"],
         bits |-> [i \in DOMAIN Of("bits") |-> BitMaskBit_from_node(Of("bits")[i])],
         values |-> [i \in DOMAIN Of("values") |-> EnumValue_from_node(Of("values")[i])],
         aliases |-> [i \in DOMAIN Of("aliases") |-> Alias_from_node(Of("aliases")[i])]]

CommandParamPanics(node) == CDecl_from_xmlPanics("FuncParam", node.children)

CommandParam_from_node(node) ==
    [c_decl |-> CDecl_from_xml("FuncParam", node.children),
     len |-> attribute_comma_separated(node, "len"),
     altlen |-> attribute_comma_separated(node, "altlen"),
     optional |-> attribute_comma_separated(node, "optional")]

ParamNodes(node, api) ==
    ChildrenWhere(node, LAMBDA c : has_tag_name(c, "param") /\ api_matches(c, api))

\* node.children().find(proto).filter(api_matches): the first `proto`
\* child, when it applies to the API.
Proto(node, api) ==
    IF ChildNamed(node, "proto") # <<>> /\ api_matches(Head(ChildNamed(node, "proto")), api)
    THEN Some(Head(ChildNamed(node, "proto")))
    ELSE None

CommandPanics(node, api) ==
    \/ Proto(node, api) = None
    \/ CDecl_from_xmlPanics("StructMember", Proto(node, api)[1].children)
    \/ \E i \in DOMAIN ParamNodes(node, api) :
           CommandParamPanics(ParamNodes(node, api)[i])

\* The filter comparing the innermost pointee instead of the type.
RECURSIVE Innermost(_)
Innermost(ty) == IF ty.kind = "Ptr" THEN Innermost(ty.pointee) ELSE ty

ReturnTypeByPointee(ty) == IF Innermost(ty) # CType_VOID THEN Some(ty) ELSE None

\* Some(proto_cdecl.ty).filter(|ty| *ty != CType::VOID)
ReturnType(ty) == IF ty # CType_VOID THEN Some(ty) ELSE None

Command_from_node(node, api) ==
    LET proto_cdecl == CDecl_from_xml("StructMember", Proto(node, api)[1].children)
    IN  [return_type |-> ReturnType(proto_cdecl.ty),
         name |-> proto_cdecl.name,
         params |-> [i \in DOMAIN ParamNodes(node, api) |->
                        CommandParam_from_node(ParamNodes(node, api)[i])]]

RequireTypePanics(node) == ~has_attribute(node, "name")

RequireType_from_node(node) == [name |-> node.attrs["name"]]

\* Version::from_str.  flat_map(str::parse) drops the segments that do not
\* parse and keeps the values of those that do.
ParsedSegments(major_minor) ==
    LET segs   == split(major_minor, "_")
        parsed == [i \in DOMAIN segs |-> ParseU32(segs[i])]
        ok     == SelectSeq(parsed, LAMBDA r : r # None)
    IN  [i \in DOMAIN ok |-> ok[i][1]]

Version_from_str(s) ==
    LET major_minor == strip_prefix(s, VK_VERSION_)
    IN  IF major_minor = None THEN None
        ELSE LET it == ParsedSegments(major_minor[1])
             IN  IF Len(it) = 2
                 THEN Some([major |-> it[1], minor |-> it[2]])
                 ELSE None

\* Depends::from_str
Depends_from_str(s) ==
    IF Version_from_str(s) = None
    THEN [kind |-> "Extension", name |-> s]
    ELSE [kind |-> "Version", version |-> Version_from_str(s)[1]]

RequireConstantPanics(node) == ~has_attribute(node, "name")

RequireConstant_from_node(node) ==
    [name |-> node.attrs["name"], value |-> attribute(node, "value")]

RequireEnumVariantPanics(node) ==
    \/ ~has_attribute(node, "name")
    \/ ~has_attribute(node, "offset")
    \/ ParseU8(node.attrs["offset"]) = None
    \/ ~has_attribute(node, "extends")

RequireEnumVariant_from_node(node) ==
    [name |-> node.attrs["name"],
     offset |-> ParseU8(node.attrs["offset"])[1],
     extends |-> node.attrs["extends"]]

RequireBitPosPanics(node) ==
    \/ ~has_attribute(node, "name")
    \/ ~has_attribute(node, "bitpos")
    \/ ParseU8(node.attrs["bitpos"]) = None
    \/ ~has_attribute(node, "extends")

RequireBitPos_from_node(node) ==
    [name |-> node.attrs["name"],
     bitpos |-> ParseU8(node.attrs["bitpos"])[1],
     extends |-> node.attrs["extends"]]

RequireCommandPanics(node) == ~has_attribute(node, "name")

RequireCommand_from_node(node) == [name |-> node.attrs["name"]]

\* The list of a Require that a child of the `require` node goes to.
\* As RequireChildList, with `bitpos` tested before `offset`.
RequireChildListBitPosFirst(child) ==
    IF child.tag = "enum"
    THEN IF has_attribute(child, "bitpos") THEN "bitpositions"
         ELSE IF has_attribute(child, "offset") THEN "enum_variants"
         ELSE "constants"
    ELSE IF child.tag = "type" THEN "types"
    ELSE IF child.tag = "command" THEN "commands"
    ELSE "ignored"

RequireChildList(child) ==
    IF child.tag = "enum"
    THEN IF has_attribute(child, "offset") THEN "enum_variants"
         ELSE IF has_attribute(child, "bitpos") THEN "bitpositions"
         ELSE "constants"
    ELSE IF child.tag = "type" THEN "types"
    ELSE IF child.tag = "command" THEN "commands"
    ELSE "ignored"

RequireChildPanics(child) ==
    CASE RequireChildList(child) = "enum_variants" -> RequireEnumVariantPanics(child)
      [] RequireChildList(child) = "bitpositions" -> RequireBitPosPanics(child)
      [] RequireChildList(child) = "constants" -> RequireConstantPanics(child)
      [] RequireChildList(child) = "types" -> RequireTypePanics(child)
      [] RequireChildList(child) = "commands" -> RequireCommandPanics(child)
      [] OTHER -> FALSE

RequirePanics(node, api) ==
    \E i \in DOMAIN node.children :
        api_matches(node.children[i], api) /\ RequireChildPanics(node.children[i])

Require_from_node(node, api) ==
    LET kids == ChildrenWhere(node, LAMBDA c : api_matches(c, api))
        Of(list) == SelectSeq(kids, LAMBDA c : RequireChildList(c) = list)
        deps == attribute_comma_separated(node, "depends")
    IN  [depends |-> [i \in DOMAIN deps |-> Depends_from_str(deps[i])],
         enum_variants |->
             [i \in DOMAIN Of("enum_variants") |->
                 RequireEnumVariant_from_node(Of("enum_variants")[i])],
         bitpositions |->
             [i \in DOMAIN Of("bitpositions") |->
                 RequireBitPos_from_node(Of("bitpositions")[i])],
         constants |->
             [i \in DOMAIN Of("constants") |->
                 RequireConstant_from_node(Of("constants")[i])],
         types |->
             [i \in DOMAIN Of("types") |-> RequireType_from_node(Of("types")[i])],
         commands |->
             [i \in DOMAIN Of("commands") |->
                 RequireCommand_from_node(Of("commands")[i])]]

RequireNodes(node, api) ==
    ChildrenWhere(node, LAMBDA c : has_tag_name(c, "require") /\ api_matches(c, api))

RequiresPanic(node, api) ==
    \E i \in DOMAIN RequireNodes(node, api) :
        RequirePanics(RequireNodes(node, api)[i], api)

Requires_from_node(node, api) ==
    [i \in DOMAIN RequireNodes(node, api) |->
        Require_from_node(RequireNodes(node, api)[i], api)]

FeaturePanics(node, api) ==
    \/ ~has_attribute(node, "name")
    \/ Version_from_str(node.attrs["name"]) = None
    \/ RequiresPanic(node, api)

Feature_from_node(node, api) ==
    [version |-> Version_from_str(node.attrs["name"])[1],
     name |-> node.attrs["name"],
     requires |-> Requires_from_node(node, api)]

ExtensionPanics(node, api) ==
    \/ ~has_attribute(node, "name")
    \/ (has_attribute(node, "number") /\ ParseU32(node.attrs["number"]) = None)
    \/ RequiresPanic(node, api)

Extension_from_node(node, api) ==
    [name |-> node.attrs["name"],
     number |-> IF has_attribute(node, "number")
                THEN ParseU32(node.attrs["number"]) ELSE None,
     ty |-> attribute(node, "type"),
     requires |-> Requires_from_node(node, api)]

(***************************************************************************)
(* xml.rs: Registry::from_node.  One iteration of a loop of the walker is  *)
(* an operator from the registry built so far to the registry after it.    *)
(***************************************************************************)
Push(reg, list, entity) == [reg EXCEPT ![list] = Append(@, entity)]

\* TypeList with union aliases sent to struct_aliases.
TypeListUnionAlias(type_node) ==
    LET category == attribute(type_node, "category")
    IN  IF has_attribute(type_node, "alias")
        THEN CASE category = Some("bitmask") -> "bitmask_aliases"
               [] category = Some("handle") -> "handle_aliases"
               [] category = Some("enum") -> "enum_aliases"
               [] category \in {Some("struct"), Some("union")} -> "struct_aliases"
               [] OTHER -> "ignored"
        ELSE CASE category = Some("basetype") -> "basetypes"
               [] category = Some("bitmask") -> "bitmask_types"
               [] category = Some("handle") -> "handles"
               [] category = Some("enum") -> "enum_types"
               [] category = Some("funcpointer") -> "funcpointers"
               [] category = Some("struct") -> "structs"
               [] category = Some("union") -> "unions"
               [] category = None -> "externals"
               [] OTHER -> "ignored"

\* TypeList with `None` and `Some(_)` of the non-alias match as one arm.
TypeListDefaultExternal(type_node) ==
    LET category == attribute(type_node, "category")
    IN  IF has_attribute(type_node, "alias")
        THEN CASE category = Some("bitmask") -> "bitmask_aliases"
               [] category = Some("handle") -> "handle_aliases"
               [] category = Some("enum") -> "enum_aliases"
               [] category = Some("struct") -> "struct_aliases"
               [] OTHER -> "ignored"
        ELSE CASE category = Some("basetype") -> "basetypes"
               [] category = Some("bitmask") -> "bitmask_types"
               [] category = Some("handle") -> "handles"
               [] category = Some("enum") -> "enum_types"
               [] category = Some("funcpointer") -> "funcpointers"
               [] category = Some("struct") -> "structs"
               [] category = Some("union") -> "unions"
               [] OTHER -> "externals"

\* The sequence of the Registry that a `type` node goes to ("ignored":
\* none).
TypeList(type_node) ==
    LET category == attribute(type_node, "category")
    IN  IF has_attribute(type_node, "alias")
        THEN CASE category = Some("bitmask") -> "bitmask_aliases"
               [] category = Some("handle") -> "handle_aliases"
               [] category = Some("enum") -> "enum_aliases"
               [] category = Some("struct") -> "struct_aliases"
               [] OTHER -> "ignored"
        ELSE CASE category = Some("basetype") -> "basetypes"
               [] category = Some("bitmask") -> "bitmask_types"
               [] category = Some("handle") -> "handles"
               [] category = Some("enum") -> "enum_types"
               [] category = Some("funcpointer") -> "funcpointers"
               [] category = Some("struct") -> "structs"
               [] category = Some("union") -> "unions"
               [] category = None -> "externals"
               [] OTHER -> "ignored"

TypePanics(type_node, api) ==
    LET list == TypeList(type_node)
    IN  CASE list \in {"bitmask_aliases", "handle_aliases", "enum_aliases",
                       "struct_aliases"} -> AliasPanics(type_node)
          [] list = "basetypes" -> BaseTypePanics(type_node)
          [] list = "bitmask_types" -> BitMaskTypePanics(type_node)
          [] list = "handles" -> HandlePanics(type_node)
          [] list = "enum_types" -> EnumTypePanics(type_node)
          [] list = "funcpointers" -> FuncPointerPanics(type_node)
          [] list \in {"structs", "unions"} -> StructurePanics(type_node, api)
          [] list = "externals" -> ExternalPanics(type_node)
          [] OTHER -> FALSE

TypeEntity(type_node, api) ==
    LET list == TypeList(type_node)
    IN  CASE list \in {"bitmask_aliases", "handle_aliases", "enum_aliases",
                       "struct_aliases"} -> Alias_from_node(type_node)
          [] list = "basetypes" -> BaseType_from_node(type_node)
          [] list = "bitmask_types" -> BitMaskType_from_node(type_node)
          [] list = "handles" -> Handle_from_node(type_node)
          [] list = "enum_types" -> EnumType_from_node(type_node)
          [] list = "funcpointers" -> FuncPointer_from_node(type_node)
          [] list \in {"structs", "unions"} -> Structure_from_node(type_node, api)
          [] list = "externals" -> External_from_node(type_node)

\* The body of the loop over the `type` children of a `types` section.
PushType(reg, type_node, api) ==
    IF TypeList(type_node) = "ignored" THEN reg
    ELSE Push(reg, TypeList(type_node), TypeEntity(type_node, api))

\* Whether the walker reaches `child`, a child named `tag` of the section
\* `registry_child` named `section`.
Visits(registry_child, section, child, tag, api) ==
    /\ api_matches(registry_child, api)
    /\ has_tag_name(registry_child, section)
    /\ has_tag_name(child, tag)
    /\ api_matches(child, api)

(***************************************************************************)
(* lib.rs, items/mod.rs: origin resolution and item collection.            *)
(***************************************************************************)
LibraryId == {"vk", "video"}

\* The API every Library::new parses its registry for.
TargetApi == vulkan

RequiredByFeature(feature) ==
    [kind |-> "Feature", major |-> feature.version.major, minor |-> feature.version.minor]

RequiredByExtension(extension) == [kind |-> "Extension", name |-> extension.name]

\* HashMap::insert: the value of an existing key is replaced.
HashMapInsert(map, key, value) ==
    [k \in DOMAIN map \cup {key} |-> IF k = key THEN value ELSE map[k]]

\* The inner loops of collect_into over one feature or extension:
\* for require in requires, for require_type in require.types.
RECURSIVE InsertTypes(_, _, _)
InsertTypes(map, types, required_by) ==
    IF types = <<>> THEN map
    ELSE InsertTypes(HashMapInsert(map, Head(types).name, required_by),
                     Tail(types), required_by)

RECURSIVE InsertRequires(_, _, _)
InsertRequires(map, requires, required_by) ==
    IF requires = <<>> THEN map
    ELSE InsertRequires(InsertTypes(map, Head(requires).types, required_by),
                        Tail(requires), required_by)

RECURSIVE InsertFeatures(_, _)
InsertFeatures(map, features) ==
    IF features = <<>> THEN map
    ELSE InsertFeatures(
             InsertRequires(map, Head(features).requires, RequiredByFeature(Head(features))),
             Tail(features))

RECURSIVE InsertExtensions(_, _)
InsertExtensions(map, extensions) ==
    IF extensions = <<>> THEN map
    ELSE InsertExtensions(
             InsertRequires(map, Head(extensions).requires,
                            RequiredByExtension(Head(extensions))),
             Tail(extensions))

\* As BuildRequireMap, but every struct of the registry that no Require
\* names gets the origin of version 1.0.
BuildRequireMapDefaulting(xml) ==
    LET map == InsertExtensions(InsertFeatures(<<>>, xml.features), xml.extensions)
        names == {xml.structs[i].name : i \in DOMAIN xml.structs}
    IN  [n \in DOMAIN map \cup names |->
            IF n \in DOMAIN map THEN map[n]
            ELSE [kind |-> "Feature", major |-> 1, minor |-> 0]]

\* As BuildRequireMap, but one map is filled from the features and
\* extensions of both libraries.
BuildRequireMapShared(xml) ==
    InsertExtensions(
        InsertFeatures(
            InsertExtensions(InsertFeatures(<<>>, registry["vk"].features),
                             registry["vk"].extensions),
            registry["video"].features),
        registry["video"].extensions)

\* The types_require_map that collect_into hands to Items::collect.
BuildRequireMap(xml) == InsertExtensions(InsertFeatures(<<>>, xml.features), xml.extensions)

\* IndexMap: a sequence of [key, value] entries in insertion order.
IndexMapKeys(map) == [i \in DOMAIN map |-> map[i].key]

IndexMapHas(map, key) == \E i \in DOMAIN map : map[i].key = key

\* As IndexMapInsert, but a new key is put in front.
IndexMapInsertFront(map, key, value) ==
    IF IndexMapHas(map, key)
    THEN [i \in DOMAIN map |-> IF map[i].key = key THEN [key |-> key, value |-> value]
                                ELSE map[i]]
    ELSE <<[key |-> key, value |-> value]>> \o map

\* IndexMap::insert: a new key is appended, the value of an existing key
\* is replaced where it stands.
IndexMapInsert(map, key, value) ==
    IF IndexMapHas(map, key)
    THEN [i \in DOMAIN map |-> IF map[i].key = key THEN [key |-> key, value |-> value]
                                ELSE map[i]]
    ELSE Append(map, [key |-> key, value |-> value])

\* Structure::new
Structure_new(origin, xml) == [origin |-> origin, name |-> xml.name]

\* The sequence of the registry that Items::collect reads.
CollectedStructures(xml) == xml.structs

\* Whether Items::collect tags `structure`.
Tagged(structure, map) == structure.name \in DOMAIN map

\* As InsertAllowed, without the assertion.
InsertAllowedUnchecked(structures, name) == TRUE

\* Whether the insertion of one tagged structure passes the assertion.
InsertAllowed(structures, name) == ~IndexMapHas(structures, name)

\* Items::collect over the structures `rest`: the catalogue and whether
\* the assertion failed.
RECURSIVE Collect(_, _, _, _)
Collect(structures, library_id, rest, map) ==
    IF rest = <<>> THEN [structures |-> structures, panicked |-> FALSE]
    ELSE IF ~Tagged(Head(rest), map) THEN Collect(structures, library_id, Tail(rest), map)
    ELSE LET name == Head(rest).name
             origin == [library_id |-> library_id, required_by |-> map[name]]
             inserted == IndexMapInsert(structures, name, Structure_new(origin, Head(rest)))
         IN  IF InsertAllowed(structures, name)
             THEN Collect(inserted, library_id, Tail(rest), map)
             ELSE [structures |-> inserted, panicked |-> TRUE]

(***************************************************************************)
(* The state: pc is the place in Analysis::new, registry[id] the Registry  *)
(* that Library::new(id) is building or has built, types_require_map[id]   *)
(* the map of collect_into, items the catalogue (Items.structures),         *)
(* cursor the loop variables of the walker: the top-level child and the    *)
(* child of it that the last iteration was about (recorded only by the     *)
(* specifications of the walker alone).                                    *)
(***************************************************************************)
\* The walker before its first node.
NoCursor == <<>>

Init ==
    /\ pc = "new_vk"
    /\ registry = [id \in LibraryId |-> RegistryDefault]
    /\ types_require_map = [id \in LibraryId |-> <<>>]
    /\ items = <<>>
    /\ cursor = NoCursor

\* The library whose document the walker is in.
Parsing(id) == pc = "new_" \o id

\* The number of entities in a registry.
Size(reg) ==
    Len(reg.externals) + Len(reg.basetypes) + Len(reg.bitmask_types)
    + Len(reg.bitmask_aliases) + Len(reg.handles) + Len(reg.handle_aliases)
    + Len(reg.enum_types) + Len(reg.enum_aliases) + Len(reg.funcpointers)
    + Len(reg.structs) + Len(reg.struct_aliases) + Len(reg.unions)
    + Len(reg.constants) + Len(reg.constant_aliases) + Len(reg.enums)
    + Len(reg.bitmasks) + Len(reg.commands) + Len(reg.command_aliases)
    + Len(reg.features) + Len(reg.extensions)

Recorded == Size(registry["vk"]) + Size(registry["video"])

\* As Iteration, but a node whose builder fails is passed over.
IterationSkipping(id, visits, panics, after) ==
    /\ Parsing(id)
    /\ IF ~visits \/ panics THEN UNCHANGED <<pc, registry>>
       ELSE registry' = [registry EXCEPT ![id] = after] /\ UNCHANGED pc
    /\ UNCHANGED <<types_require_map, items>>

\* One iteration of a loop of Registry::from_node in Library::new(id):
\* nothing when the walker does not reach the node, the abort of the
\* process when a builder panics, else the registry after the iteration.
Iteration(id, visits, panics, after) ==
    /\ Parsing(id)
    /\ IF ~visits THEN UNCHANGED <<pc, registry>>
       ELSE IF panics THEN pc' = "abort" /\ UNCHANGED registry
       ELSE registry' = [registry EXCEPT ![id] = after] /\ UNCHANGED pc
    /\ UNCHANGED <<types_require_map, items>>

\* The `types` arm: one iteration of the loop over the `type` children.
TypeNode(id, registry_child, type_node) ==
    Iteration(id,
              Visits(registry_child, "types", type_node, "type", TargetApi),
              TypePanics(type_node, TargetApi),
              PushType(registry[id], type_node, TargetApi))

\* The list an `enums` group goes to as a whole ("ignored": none;
\* "constants": its children go to the constant sequences one by one).
EnumsList(registry_child) ==
    LET type == attribute(registry_child, "type")
    IN  CASE type = Some("enum") -> "enums"
          [] type = Some("bitmask") -> "bitmasks"
          [] type = None /\ attribute(registry_child, "name") = Some("API Constants") ->
                 "constants"
          [] OTHER -> "ignored"

\* The `enums` arm for a group of type `enum` or `bitmask`.
EnumsNode(id, registry_child) ==
    Iteration(id,
              /\ api_matches(registry_child, TargetApi)
              /\ has_tag_name(registry_child, "enums")
              /\ EnumsList(registry_child) \in {"enums", "bitmasks"},
              IF EnumsList(registry_child) = "enums"
              THEN EnumPanics(registry_child, TargetApi)
              ELSE BitMaskPanics(registry_child, TargetApi),
              IF EnumsList(registry_child) = "enums"
              THEN Push(registry[id], "enums", Enum_from_node(registry_child, TargetApi))
              ELSE Push(registry[id], "bitmasks",
                        BitMask_from_node(registry_child, TargetApi)))

\* The `enums` arm for the "API Constants" group: one iteration of the
\* loop over its `enum` children.
ConstantNode(id, registry_child, enum_node) ==
    Iteration(id,
              /\ Visits(registry_child, "enums", enum_node, "enum", TargetApi)
              /\ EnumsList(registry_child) = "constants",
              IF has_attribute(enum_node, "alias") THEN AliasPanics(enum_node)
              ELSE ConstantPanics(enum_node),
              IF has_attribute(enum_node, "alias")
              THEN Push(registry[id], "constant_aliases", Alias_from_node(enum_node))
              ELSE Push(registry[id], "constants", Constant_from_node(enum_node)))

\* The `commands` arm: one iteration of the loop over the `command`
\* children.
CommandNode(id, registry_child, command_node) ==
    Iteration(id,
              Visits(registry_child, "commands", command_node, "command", TargetApi),
              IF has_attribute(command_node, "alias") THEN AliasPanics(command_node)
              ELSE CommandPanics(command_node, TargetApi),
              IF has_attribute(command_node, "alias")
              THEN Push(registry[id], "command_aliases", Alias_from_node(command_node))
              ELSE Push(registry[id], "commands",
                        Command_from_node(command_node, TargetApi)))

\* The `feature` arm.
FeatureNode(id, registry_child) ==
    Iteration(id,
              api_matches(registry_child, TargetApi)
                  /\ has_tag_name(registry_child, "feature"),
              FeaturePanics(registry_child, TargetApi),
              Push(registry[id], "features", Feature_from_node(registry_child, TargetApi)))

\* The `extensions` arm: one iteration of the loop over the `extension`
\* children.
ExtensionNode(id, registry_child, extension_node) ==
    Iteration(id,
              /\ api_matches(registry_child, TargetApi)
              /\ has_tag_name(registry_child, "extensions")
              /\ has_tag_name(extension_node, "extension")
              /\ supported_matches(extension_node, TargetApi),
              ExtensionPanics(extension_node, TargetApi),
              Push(registry[id], "extensions",
                   Extension_from_node(extension_node, TargetApi)))

\* The `_ => ()` arm: a top-level child of any other tag.
OtherNode(id, registry_child) ==
    Iteration(id, FALSE, FALSE, registry[id])

\* The end of the first document: Library::new(Vk) returns and
\* Library::new(Video) starts.  (The end of the second document is the
\* start of CollectInto("vk").)
LibraryNew(id) ==
    /\ id = "vk"
    /\ Parsing(id)
    /\ pc' = "new_video"
    /\ UNCHANGED <<registry, types_require_map, items, cursor>>

\* Library::collect_into, called by Analysis::new for vk and then video.
CollectInto(id) ==
    /\ pc = IF id = "vk" THEN "new_video" ELSE "collect_video"
    /\ LET map == BuildRequireMap(registry[id])
           got == Collect(items, id, CollectedStructures(registry[id]), map)
       IN  /\ types_require_map' = [types_require_map EXCEPT ![id] = map]
           /\ items' = got.structures
           /\ pc' = IF got.panicked THEN "abort"
                    ELSE IF id = "vk" THEN "collect_video" ELSE "done"
    /\ UNCHANGED <<registry, cursor>>

(***************************************************************************)
(* The documents of the pipeline specification.                            *)
(***************************************************************************)
Element(tag, attrs, children) ==
    [type |-> "Element", tag |-> tag, attrs |-> attrs, children |-> children, text |-> <<>>]

Text(text) ==
    [type |-> "Text", tag |-> "", attrs |-> NoAttrs, children |-> <<>>, text |-> text]

Names == {"A", "B"}

VK_VERSION_1_0 == VK_VERSION_ \o <<"1", "_", "0">>

VK_VERSION_1_1 == VK_VERSION_ \o <<"1", "_", "1">>

TypesSection == Element("types", NoAttrs, <<>>)

ExtensionsSection == Element("extensions", NoAttrs, <<>>)

StructureNodes ==
    {Element("type", [category |-> c, name |-> n], <<>>) :
        c \in {"struct", "union"}, n \in Names}

RequireOf(n) == Element("require", NoAttrs, <<Element("type", [name |-> n], <<>>)>>)

FeatureNodes ==
    {Element("feature", [name |-> v], <<RequireOf(n)>>) :
        v \in {VK_VERSION_1_0, VK_VERSION_1_1}, n \in Names}

ExtensionNodes ==
    {Element("extension", a @@ [name |-> "VK_EXT_a"], <<RequireOf(n)>>) :
        a \in {NoAttrs, "supported" :> vulkan, "supported" :> disabled}, n \in Names}

\* The steps of the walker in the two documents, while fewer than MaxNodes
\* entities are recorded.
ParseType(id, type_node) ==
    /\ Recorded < MaxNodes
    /\ TypeNode(id, TypesSection, type_node)
    /\ UNCHANGED cursor

ParseFeature(id, feature_node) ==
    /\ Recorded < MaxNodes
    /\ FeatureNode(id, feature_node)
    /\ UNCHANGED cursor

ParseExtension(id, extension_node) ==
    /\ Recorded < MaxNodes
    /\ ExtensionNode(id, ExtensionsSection, extension_node)
    /\ UNCHANGED cursor

Next ==
    \E id \in LibraryId :
        \/ \E type_node \in StructureNodes : ParseType(id, type_node)
        \/ \E feature_node \in FeatureNodes : ParseFeature(id, feature_node)
        \/ \E extension_node \in ExtensionNodes : ParseExtension(id, extension_node)
        \/ LibraryNew(id)
        \/ CollectInto(id)

Spec == Init /\ [][Next]_vars

(***************************************************************************)
(* The walker alone (SpecXml): one document, parsed as Library::new(Vk)    *)
(* does, with `type` elements of every category and `command` elements.   *)
(* cursor records the top-level child and the node of the last iteration   *)
(* and the registry before it.                                             *)
(***************************************************************************)
\* An element whose only child is the text s.
Named(tag, s) == Element(tag, NoAttrs, <<Text(s)>>)

At(registry_child, node) ==
    [registry_child |-> registry_child, node |-> node, before |-> registry["vk"]]

\* The declarations `<type>ty</type> <name>n</name>` and
\* `<type>ty</type>* <name>n</name>`, with or without a leading `const`.
Declarators(ty, n) ==
    {<<Named("type", ty), Named("name", n)>>,
     <<Named("type", ty), Text(<<"*">>), Named("name", n)>>,
     <<Text(<<"const">>), Named("type", ty), Text(<<"*">>), Named("name", n)>>}

MemberNodeSets == {<<>>, <<Element("member", NoAttrs, <<Named("type", "int"), Named("name", "x")>>)>>}

XmlNames == {"A"}

XmlTypeNodes ==
    {Element("type", [name |-> n], <<>>) : n \in XmlNames}
    \cup {Element("type", [name |-> n, requires |-> "X11/Xlib.h"], <<>>) : n \in XmlNames}
    \cup {Element("type", NoAttrs, <<>>)}
    \cup {Element("type", [category |-> c, name |-> n], <<>>) :
             c \in {"enum", "define", "include"}, n \in XmlNames}
    \cup {Element("type", [category |-> c],
                  <<Text(<<"typedef">>), Named("type", "uint32_t"), Named("name", n),
                    Text(<<";">>)>>) :
             c \in {"basetype", "bitmask"}, n \in XmlNames}
    \cup {Element("type", [category |-> "handle", objtypeenum |-> "VK_OBJECT_TYPE_A"],
                  <<Named("type", "VK_DEFINE_HANDLE"), Text(<<"(">>), Named("name", n),
                    Text(<<")">>)>>) : n \in XmlNames}
    \cup {Element("type", [category |-> "funcpointer"],
                  <<Text(<<"typedef">>), Named("type", "void"),
                    Text(<<"(", "VKAPI_PTR", "*">>), Named("name", n),
                    Text(<<")", "(">>), Named("type", "void"), Text(<<")", ";">>)>>) :
             n \in XmlNames}
    \cup {Element("type", [category |-> c, name |-> n], members) :
             c \in {"struct", "union"}, n \in XmlNames, members \in MemberNodeSets}
    \cup {Element("type", [category |-> c, name |-> n, alias |-> t], <<>>) :
             c \in {"bitmask", "handle", "enum", "struct", "union", "basetype"},
             n \in XmlNames, t \in {"A", "C"}}
    \cup {Element("type", [name |-> n, alias |-> "C"], <<>>) : n \in XmlNames}

CommandsSection == Element("commands", NoAttrs, <<>>)

XmlCommandNodes ==
    {Element("command", NoAttrs, <<Element("proto", NoAttrs, decl)>> \o params) :
        decl \in Declarators("void", "vkA") \cup Declarators("VkResult", "vkA"),
        params \in {<<>>, <<Element("param", NoAttrs,
                                    <<Named("type", "int"), Named("name", "x")>>)>>}}
    \cup {Element("command", [name |-> "vkB", alias |-> "vkA"], <<>>)}

MaxXmlNodes == 2

XmlType(type_node) ==
    /\ Size(registry["vk"]) < MaxXmlNodes
    /\ TypeNode("vk", TypesSection, type_node)
    /\ cursor' = At(TypesSection, type_node)

XmlCommand(command_node) ==
    /\ Size(registry["vk"]) < MaxXmlNodes
    /\ CommandNode("vk", CommandsSection, command_node)
    /\ cursor' = At(CommandsSection, command_node)

NextXml ==
    \/ \E type_node \in XmlTypeNodes : XmlType(type_node)
    \/ \E command_node \in XmlCommandNodes : XmlCommand(command_node)

SpecXml == Init /\ [][NextXml]_vars

(***************************************************************************)
(* The walker over documents with `api` attributes (SpecApi): one node of  *)
(* each level the filter applies to, under a section, each with or         *)
(* without an `api` attribute.                                             *)
(***************************************************************************)
\* No `api` attribute, or one of these values.
ApiValues == {None, Some(vulkan), Some(vulkansc), Some(vulkansc \o <<",">> \o vulkan)}

WithApi(attrs, a) == IF a = None THEN attrs ELSE attrs @@ ("api" :> a[1])

IntX == <<Named("type", "int"), Named("name", "x")>>

\* The values of the `api` attribute of a section.
ApiSectionValues == ApiValues \ {Some(vulkan)}

ApiSections(tag) == {Element(tag, WithApi(NoAttrs, a), <<>>) : a \in ApiSectionValues}

ApiTypeNodes ==
    {Element("type", WithApi([category |-> c, name |-> "A"], a),
             <<Element("member", WithApi(NoAttrs, b), IntX)>>) :
        c \in {"struct"}, a \in ApiValues, b \in ApiValues}

ApiCommandNodes ==
    {Element("command", WithApi(NoAttrs, a),
             <<Element("proto", NoAttrs, <<Named("type", "void"), Named("name", "vkA")>>),
               Element("param", WithApi(NoAttrs, b), IntX)>>) :
        a \in ApiValues, b \in ApiValues}

ApiConstantsGroups ==
    {Element("enums", WithApi([name |-> "API Constants"], a), <<>>) : a \in ApiSectionValues}

ApiConstantNodes ==
    {Element("enum", WithApi([type |-> "uint32_t", value |-> "1", name |-> "A"], a), <<>>) :
        a \in ApiValues}

ApiEnumsGroups ==
    {Element("enums", WithApi([type |-> "enum", name |-> "A"], a),
             <<Element("enum", WithApi([value |-> "1", name |-> "A_X"], b), <<>>)>>) :
        a \in ApiValues, b \in ApiValues}
    \cup {Element("enums", WithApi([type |-> "bitmask", name |-> "A"], a),
                  <<Element("enum", WithApi([bitpos |-> "1", name |-> "A_X"], b), <<>>)>>) :
             a \in ApiValues, b \in ApiValues}

ApiFeatureNodes ==
    {Element("feature", WithApi([name |-> VK_VERSION_1_0], a),
             <<Element("require", WithApi(NoAttrs, b),
                       <<Element(tag, WithApi([name |-> "A"], c), <<>>)>>)>>) :
        tag \in {"type", "command"},
        a \in ApiSectionValues, b \in ApiSectionValues, c \in ApiValues}

MaxApiNodes == 1

ApiBound == Size(registry["vk"]) < MaxApiNodes

ApiType(registry_child, type_node) ==
    /\ ApiBound
    /\ TypeNode("vk", registry_child, type_node)
    /\ cursor' = At(registry_child, type_node)

ApiCommand(registry_child, command_node) ==
    /\ ApiBound
    /\ CommandNode("vk", registry_child, command_node)
    /\ cursor' = At(registry_child, command_node)

ApiConstant(registry_child, enum_node) ==
    /\ ApiBound
    /\ ConstantNode("vk", registry_child, enum_node)
    /\ cursor' = At(registry_child, enum_node)

ApiEnums(registry_child) ==
    /\ ApiBound
    /\ EnumsNode("vk", registry_child)
    /\ cursor' = At(registry_child, registry_child)

ApiFeature(registry_child) ==
    /\ ApiBound
    /\ FeatureNode("vk", registry_child)
    /\ cursor' = At(registry_child, registry_child)

NextApi ==
    \/ \E registry_child \in ApiSections("types"), type_node \in ApiTypeNodes :
           ApiType(registry_child, type_node)
    \/ \E registry_child \in ApiSections("commands"), command_node \in ApiCommandNodes :
           ApiCommand(registry_child, command_node)
    \/ \E registry_child \in ApiConstantsGroups, enum_node \in ApiConstantNodes :
           ApiConstant(registry_child, enum_node)
    \/ \E registry_child \in ApiEnumsGroups : ApiEnums(registry_child)
    \/ \E registry_child \in ApiFeatureNodes : ApiFeature(registry_child)

SpecApi == Init /\ [][NextApi]_vars

(***************************************************************************)
(* The pipeline over documents with well-formed and malformed nodes and    *)
(* extensions of every `supported` value (SpecIngest).  cursor also        *)
(* records the library of the last iteration.                              *)
(***************************************************************************)
AtLibrary(id, registry_child, node) ==
    [id |-> id, registry_child |-> registry_child, node |-> node, before |-> registry[id]]

\* The values of `supported`, each with the name of the extension that
\* carries it.
SupportedValues ==
    {<<None, "VK_EXT_none">>, <<Some(vulkan), "VK_EXT_vulkan">>,
     <<Some(disabled), "VK_EXT_disabled">>, <<Some(vulkansc), "VK_EXT_vulkansc">>,
     <<Some(vulkansc \o <<",">> \o vulkan), "VK_EXT_both">>}

WithSupported(attrs, a) == IF a = None THEN attrs ELSE attrs @@ ("supported" :> a[1])

\* Digit strings that are a u8, and strings that are not.
U8Strings == {<<"1">>, <<"2", "5", "5">>}

NotU8Strings == {<<"x">>, <<"2", "5", "6">>}

IngestTypeNodes ==
    {Element("type", [category |-> "struct", name |-> "A"], <<>>),
     Element("type", [category |-> "struct"], <<>>),
     Element("type", NoAttrs, <<>>)}

IngestExtensionNodes ==
    {Element("extension", WithSupported([name |-> v[2]], v[1]), <<RequireOf("A")>>) :
        v \in SupportedValues}
    \cup {Element("extension", [name |-> "VK_EXT_none", number |-> n], <<>>) :
             n \in {<<"1">>, <<"x">>}}
    \cup {Element("extension", [number |-> <<"1">>], <<>>),
          Element("extension", [supported |-> disabled, number |-> <<"x">>], <<>>)}

IngestRequireChildren ==
    {Element("enum", [name |-> "E", extends |-> "VkE", offset |-> o], <<>>) :
        o \in U8Strings \cup NotU8Strings}
    \cup {Element("enum", [name |-> "E", extends |-> "VkE", bitpos |-> b], <<>>) :
             b \in {<<"1">>, <<"x">>}}
    \cup {Element("enum", [extends |-> "VkE", offset |-> <<"1">>], <<>>),
          Element("type", NoAttrs, <<>>),
          Element("enum", [api |-> vulkansc, name |-> "E", extends |-> "VkE",
                           offset |-> <<"x">>], <<>>)}

IngestFeatureNodes ==
    {Element("feature", [name |-> VK_VERSION_1_0],
             <<Element("require", NoAttrs, <<child>>)>>) :
        child \in IngestRequireChildren}

MaxIngestNodes == 3

IngestType(id, type_node) ==
    /\ Recorded < MaxIngestNodes
    /\ TypeNode(id, TypesSection, type_node)
    /\ cursor' = AtLibrary(id, TypesSection, type_node)

IngestFeature(id, feature_node) ==
    /\ Recorded < MaxIngestNodes
    /\ FeatureNode(id, feature_node)
    /\ cursor' = AtLibrary(id, feature_node, feature_node)

IngestExtension(id, extension_node) ==
    /\ Recorded < MaxIngestNodes
    /\ ExtensionNode(id, ExtensionsSection, extension_node)
    /\ cursor' = AtLibrary(id, ExtensionsSection, extension_node)

NextIngest ==
    \E id \in LibraryId :
        \/ \E type_node \in IngestTypeNodes : IngestType(id, type_node)
        \/ \E feature_node \in IngestFeatureNodes : IngestFeature(id, feature_node)
        \/ \E extension_node \in IngestExtensionNodes : IngestExtension(id, extension_node)
        \/ LibraryNew(id)
        \/ CollectInto(id)

SpecIngest == Init /\ [][NextIngest]_vars

(***************************************************************************)
(* Version::from_str and Depends::from_str over names of up to             *)
(* MaxSegments segments (SpecVersion): one `feature` with the name, or     *)
(* one `feature` with a `require` that depends on the name.                *)
(***************************************************************************)
MaxSegments == 3

Segments == {<<"1">>, <<"0">>, <<"x">>, <<>>}

\* The segments joined by '_'.
RECURSIVE Join(_)
Join(segs) ==
    IF Len(segs) = 1 THEN segs[1] ELSE segs[1] \o <<"_">> \o Join(Tail(segs))

VersionStrings ==
    {prefix \o Join(segs) :
        prefix \in {VK_VERSION_, <<"V", "K", "_">>},
        segs \in UNION {[1..n -> Segments] : n \in 1..MaxSegments}}

VersionFeature(name) ==
    /\ cursor = NoCursor
    /\ LET feature_node == Element("feature", [name |-> name], <<>>)
       IN  /\ FeatureNode("vk", feature_node)
           /\ cursor' = AtLibrary("vk", feature_node, feature_node)

VersionDepends(name) ==
    /\ cursor = NoCursor
    /\ LET feature_node ==
               Element("feature", [name |-> VK_VERSION_1_0],
                       <<Element("require", [depends |-> name], <<>>)>>)
       IN  /\ FeatureNode("vk", feature_node)
           /\ cursor' = AtLibrary("vk", feature_node, feature_node)

NextVersion ==
    \/ \E name \in VersionStrings : VersionFeature(name)
    \/ \E name \in VersionStrings : VersionDepends(name)

SpecVersion == Init /\ [][NextVersion]_vars

(***************************************************************************)
(* CDecl::from_xml over declarator contents of up to MaxPieces pieces      *)
(* (SpecLex): cursor holds the children handed to it and then its          *)
(* outcome.                                                                *)
(***************************************************************************)
MaxPieces == 3

Pieces ==
    {Text(<<"const", "VkBool32", "*">>),
     Text(<<"VKAPI_PTR", "y">>),
     Text(<<"STD_VIDEO_H264_MAX_NUM_LIST_REF">>),
     Text(<<"PFN_vkVoidFunction", "STD_VIDEO_H265_MAX_NUM_LIST_REF", "[", "2", "]">>),
     Text(<<"@">>),
     Named("type", "int"),
     Named("type", "VKAPI_PTR"),
     Named("name", "VkBool32"),
     Named("enum", "STD_VIDEO_H264_MAX_NUM_LIST_REF"),
     Named("comment", <<"note">>),
     Element("comment", NoAttrs, <<>>),
     Element("comment", [kind |-> "x"], <<Text(<<"note">>)>>),
     Element("type", NoAttrs, <<>>),
     Named("bogus", "z"),
     Element("name", [kind |-> "x"], <<Text("x")>>)}

DeclaratorContents == UNION {[1..n -> Pieces] : n \in 0..MaxPieces}

InitLex ==
    /\ pc = "from_xml"
    /\ registry = [id \in LibraryId |-> RegistryDefault]
    /\ types_require_map = [id \in LibraryId |-> <<>>]
    /\ items = <<>>
    /\ cursor \in {[children |-> children] : children \in DeclaratorContents}

\* CDecl::from_xml(StructMember, children): the failure of the loop over
\* the children, else the tokens after the fix-up and the result of
\* CDecl::parse.
FromXml ==
    /\ pc = "from_xml"
    /\ IF \E i \in DOMAIN cursor.children : ChildLexPanics(cursor.children[i])
       THEN /\ pc' = "abort"
            /\ cursor' = [children |-> cursor.children, failed |-> TRUE,
                          c_tokens |-> <<>>, c_decl |-> None]
       ELSE /\ pc' = IF CDecl_from_xmlPanics("StructMember", cursor.children)
                     THEN "abort" ELSE "parsed"
            /\ cursor' = [children |-> cursor.children, failed |-> FALSE,
                          c_tokens |-> c_tokens_of(cursor.children),
                          c_decl |-> CDecl_parse("StructMember",
                                                 c_tokens_of(cursor.children))]
    /\ UNCHANGED <<registry, types_require_map, items>>

NextLex == FromXml

SpecLex == InitLex /\ [][NextLex]_vars

(***************************************************************************)
(* The walker over one group with up to MaxGroupChildren children          *)
(* (SpecGroups): a bitmask `enums` group with its variants, or a `feature` *)
(* with one `require` and its children.                                    *)
(***************************************************************************)
MaxGroupChildren == 2

\* The subsets of the attributes alias, value and bitpos, as attributes.
VariantAttrs ==
    {[k \in keys |-> IF k = "alias" THEN "T" ELSE "1"] :
        keys \in SUBSET {"alias", "value", "bitpos"}}

BitMaskVariants ==
    {Element("enum", a @@ [name |-> n], <<>>) : a \in VariantAttrs, n \in {"X", "Y"}}
    \cup {Element("enum", [api |-> vulkansc, name |-> "X", value |-> "1"], <<>>),
          Element("enum", [bitpos |-> "1"], <<>>)}

BitMaskGroups ==
    {Element("enums", [type |-> "bitmask", name |-> "VkFlagBits"], variants) :
        variants \in UNION {[1..n -> BitMaskVariants] : n \in 0..MaxGroupChildren}}

\* The subsets of the attributes offset and bitpos, as attributes.
RequireEnumAttrs ==
    {[k \in keys |-> IF k = "offset" THEN <<"1">> ELSE <<"2">>] :
        keys \in SUBSET {"offset", "bitpos"}}

RequireChildren ==
    {Element("enum", a @@ [name |-> n, extends |-> "VkE"], <<>>) :
        a \in RequireEnumAttrs, n \in {"P", "Q"}}
    \cup {Element(tag, [name |-> n], <<>>) : tag \in {"type", "command"}, n \in {"P", "Q"}}
    \cup {Element("comment", NoAttrs, <<Text(<<"note">>)>>),
          Text(<<"note">>),
          Element("type", [api |-> vulkansc, name |-> "P"], <<>>)}

\* The values of `depends`, each with the Depends entries it stands for.
DependsValues ==
    {<<None, <<>>>>,
     <<Some(VK_VERSION_1_0),
       <<[kind |-> "Version", version |-> [major |-> 1, minor |-> 0]]>>>>,
     <<Some(<<"V", "K", "_", "a", ",">> \o VK_VERSION_1_1),
       <<[kind |-> "Extension", name |-> <<"V", "K", "_", "a">>],
         [kind |-> "Version", version |-> [major |-> 1, minor |-> 1]]>>>>}

WithDepends(attrs, d) == IF d = None THEN attrs ELSE attrs @@ ("depends" :> d[1])

RequireGroups ==
    {Element("feature", [name |-> VK_VERSION_1_0],
             <<Element("require", WithDepends(NoAttrs, d[1]), children)>>) :
        d \in DependsValues,
        children \in UNION {[1..n -> RequireChildren] : n \in 0..MaxGroupChildren}}

GroupBitMask(registry_child) ==
    /\ cursor = NoCursor
    /\ EnumsNode("vk", registry_child)
    /\ cursor' = AtLibrary("vk", registry_child, registry_child)

GroupRequire(registry_child) ==
    /\ cursor = NoCursor
    /\ FeatureNode("vk", registry_child)
    /\ cursor' = AtLibrary("vk", registry_child, registry_child)

NextGroups ==
    \/ \E registry_child \in BitMaskGroups : GroupBitMask(registry_child)
    \/ \E registry_child \in RequireGroups : GroupRequire(registry_child)

SpecGroups == Init /\ [][NextGroups]_vars

(***************************************************************************)
(* Properties of origin resolution and item collection (Spec).             *)
(***************************************************************************)
\* The features and then the extensions of a registry, in document order,
\* each as the RequiredBy it stands for and its Require groups.
Groups(xml) ==
    [i \in DOMAIN xml.features |->
        [required_by |-> RequiredByFeature(xml.features[i]),
         requires |-> xml.features[i].requires]]
    \o [i \in DOMAIN xml.extensions |->
        [required_by |-> RequiredByExtension(xml.extensions[i]),
         requires |-> xml.extensions[i].requires]]

\* Whether group g has `name` in the types of one of its Require groups.
Requires(g, name) ==
    \E r \in DOMAIN g.requires :
        \E t \in DOMAIN g.requires[r].types : g.requires[r].types[t].name = name

\* The type names some feature or extension of the registry requires.
RequiredNames(xml) ==
    UNION {UNION {{Groups(xml)[i].requires[r].types[t].name :
                      t \in DOMAIN Groups(xml)[i].requires[r].types} :
                  r \in DOMAIN Groups(xml)[i].requires} :
           i \in DOMAIN Groups(xml)}

\* The first group, in scan order, that requires `name`.
FirstRequiring(xml, name) ==
    LET first == CHOOSE i \in DOMAIN Groups(xml) :
                     /\ Requires(Groups(xml)[i], name)
                     /\ \A j \in 1..(i - 1) : ~Requires(Groups(xml)[j], name)
    IN  Groups(xml)[first].required_by

\* The libraries whose collect_into has run.
Collected(id) ==
    \/ pc = "done"
    \/ pc = "collect_video" /\ id = "vk"

NoDuplicates(seq) == \A i, j \in DOMAIN seq : seq[i] = seq[j] => i = j

\* The names of the structs of a registry that a feature or extension of
\* the same registry requires, in declaration order.
TaggedNames(xml) ==
    LET tagged == SelectSeq(xml.structs, LAMBDA st : st.name \in RequiredNames(xml))
    IN  [i \in DOMAIN tagged |-> tagged[i].name]

\* C1: the entry of a type name in the name-to-RequiredBy map of a library
\* is the RequiredBy of the first feature or extension, in scan order
\* (features, then extensions, each in document order), that requires it.
C1_FirstWins ==
    \A id \in LibraryId :
        \A name \in DOMAIN types_require_map[id] :
            types_require_map[id][name] = FirstRequiring(registry[id], name)

\* The name of an entity of the sequence `list` of a registry.
NameOf(list, entity) ==
    IF list = "funcpointers" THEN entity.c_decl.name ELSE entity.name

\* The libraries whose Library::new has returned its Registry.
Returned(id) ==
    \/ pc \in {"collect_video", "done"}
    \/ pc = "new_video" /\ id = "vk"

\* C2: a Registry that Registry::from_node returns has no name twice in
\* any one of its sequences (a second `type` element of the same name and
\* category aborts ingestion).
C2_NoDuplicateInCategory ==
    \A id \in LibraryId :
        Returned(id) =>
            \A list \in DOMAIN registry[id] :
                NoDuplicates([i \in DOMAIN registry[id][list] |->
                                 NameOf(list, registry[id][list][i])])

\* C3: the catalogue never holds a name twice, and Analysis::new returns
\* only if the names of the tagged structures of both libraries are
\* pairwise distinct (a collision aborts instead of overwriting).
C3_NoDuplicateNames ==
    /\ NoDuplicates(IndexMapKeys(items))
    /\ pc = "done" =>
           /\ NoDuplicates(TaggedNames(registry["vk"]) \o TaggedNames(registry["video"]))
           /\ Len(items) = Len(TaggedNames(registry["vk"]))
                               + Len(TaggedNames(registry["video"]))

\* C3: both libraries tag a structure named A, and ingestion aborted.
C3_Witness ==
    /\ pc = "abort"
    /\ \E i \in DOMAIN TaggedNames(registry["vk"]) :
           \E j \in DOMAIN TaggedNames(registry["video"]) :
               TaggedNames(registry["vk"])[i] = TaggedNames(registry["video"])[j]

\* C4: after Analysis::new, every catalogue entry names a structure that a
\* feature or extension of its own library requires, and a struct or union
\* of a registry that no Require of that registry names has no entry tagged
\* with that library.
C4_OnlyRequired ==
    pc = "done" =>
        /\ \A i \in DOMAIN items :
               items[i].key \in RequiredNames(registry[items[i].value.origin.library_id])
        /\ \A id \in LibraryId :
               \A k \in DOMAIN (registry[id].structs \o registry[id].unions) :
                   LET st == (registry[id].structs \o registry[id].unions)[k]
                   IN  st.name \notin RequiredNames(registry[id]) =>
                           ~\E i \in DOMAIN items :
                               /\ items[i].key = st.name
                               /\ items[i].value.origin.library_id = id

\* C4: Analysis::new returned a non-empty catalogue from a registry that
\* also defines a struct no Require names.
C4_Witness ==
    /\ pc = "done"
    /\ items # <<>>
    /\ \E id \in LibraryId : \E k \in DOMAIN registry[id].structs :
           registry[id].structs[k].name \notin RequiredNames(registry[id])

\* C5: after Analysis::new, every struct and every union of a registry
\* whose name is in that library's map has a catalogue entry with origin
\* (library id, mapped RequiredBy).
C5_RequiredStructuresTagged ==
    pc = "done" =>
        \A id \in LibraryId :
            \A k \in DOMAIN (registry[id].structs \o registry[id].unions) :
                LET st == (registry[id].structs \o registry[id].unions)[k]
                IN  st.name \in DOMAIN types_require_map[id] =>
                        \E i \in DOMAIN items :
                            /\ items[i].key = st.name
                            /\ items[i].value.origin =
                                   [library_id |-> id,
                                    required_by |-> types_require_map[id][st.name]]

\* C6: the catalogue lists the required structs of vk in declaration
\* order, then those of video in declaration order, each tagged with its
\* library; the entries of vk stand unchanged before those of video.
C6_InsertionOrder ==
    LET vk == TaggedNames(registry["vk"])
        video == TaggedNames(registry["video"])
    IN  /\ pc = "collect_video" => IndexMapKeys(items) = vk
        /\ pc = "done" =>
               /\ IndexMapKeys(items) = vk \o video
               /\ \A i \in DOMAIN items :
                      items[i].value.origin.library_id =
                          IF i <= Len(vk) THEN "vk" ELSE "video"

\* C6: Analysis::new returned a catalogue with entries of both libraries.
C6_Witness ==
    /\ pc = "done"
    /\ TaggedNames(registry["vk"]) # <<>>
    /\ TaggedNames(registry["video"]) # <<>>

\* C6: Analysis::new returned a catalogue with two entries of vk.
C6_WitnessTwo == pc = "done" /\ Len(TaggedNames(registry["vk"])) = 2

\* The other library.
Other(id) == IF id = "vk" THEN "video" ELSE "vk"

\* The names of the structs of a registry.
StructNames(xml) == {xml.structs[i].name : i \in DOMAIN xml.structs}

\* C18: the map of a library has exactly the type names that the Require
\* groups of that library's own features and extensions name; every
\* catalogue item is a struct of the library of its origin and its
\* RequiredBy is that of a feature or extension of the same library that
\* requires it; after Analysis::new a struct that only the other library
\* requires and does not itself define has no item.
C18_LibrariesIsolated ==
    /\ \A id \in LibraryId :
           Collected(id) => DOMAIN types_require_map[id] = RequiredNames(registry[id])
    /\ \A i \in DOMAIN items :
           LET origin == items[i].value.origin
               xml == registry[origin.library_id]
           IN  /\ items[i].key \in StructNames(xml)
               /\ \E g \in DOMAIN Groups(xml) :
                      /\ Groups(xml)[g].required_by = origin.required_by
                      /\ Requires(Groups(xml)[g], items[i].key)
    /\ pc = "done" =>
           \A id \in LibraryId :
               \A name \in StructNames(registry[id]) :
                   (/\ name \in RequiredNames(registry[Other(id)])
                    /\ name \notin RequiredNames(registry[id])
                    /\ name \notin StructNames(registry[Other(id)])) =>
                       ~IndexMapHas(items, name)

\* Analysis::new returned a catalogue with an item while a struct of vk
\* that only a feature or extension of video requires has none.
C18_Witness ==
    /\ pc = "done"
    /\ items # <<>>
    /\ \E name \in StructNames(registry["vk"]) :
           /\ name \in RequiredNames(registry["video"])
           /\ name \notin RequiredNames(registry["vk"])
           /\ ~IndexMapHas(items, name)

(***************************************************************************)
(* Properties of the walker (SpecXml).                                     *)
(***************************************************************************)
Last(seq) == seq[Len(seq)]

\* The last iteration was over a `type` child of a `types` section.
AtType == cursor # NoCursor /\ cursor.node.tag = "type"

\* The last iteration was over a `command` child of a `commands` section.
AtCommand == cursor # NoCursor /\ cursor.node.tag = "command"

RecognizedCategories ==
    {"basetype", "bitmask", "handle", "enum", "funcpointer", "struct", "union"}

\* The children of the `proto` of a command node.
ProtoChildren(command_node) == Head(ChildNamed(command_node, "proto")).children

\* The prototype reads `void name`: apart from the name its only content
\* is the type `void`.
BareVoid(command_node) ==
    SelectSeq(ProtoChildren(command_node), LAMBDA c : c.tag # "name")
        = <<Named("type", "void")>>

\* C7: a command built from a node has no return type exactly when its
\* prototype declares bare `void`; otherwise it has the parsed type of the
\* prototype, pointer to void included; no command of the registry has the
\* void type as its return type.
C7_VoidReturn ==
    /\ \A i \in DOMAIN registry["vk"].commands :
           registry["vk"].commands[i].return_type # Some(CType_VOID)
    /\ (AtCommand /\ ~has_attribute(cursor.node, "alias")
            /\ registry["vk"] # cursor.before) =>
           LET command == Last(registry["vk"].commands)
               parsed == CDecl_from_xml("StructMember", ProtoChildren(cursor.node)).ty
           IN  /\ command.return_type = None <=> BareVoid(cursor.node)
               /\ ~BareVoid(cursor.node) => command.return_type = Some(parsed)

\* A command returning nothing and a command returning pointer to void are
\* both in the registry.
C7_Witness ==
    /\ AtCommand
    /\ Len(registry["vk"].commands) = 2
    /\ Len(cursor.before.commands) = 1
    /\ registry["vk"].commands[1].return_type = None
    /\ registry["vk"].commands[2].return_type = Some(Ptr(FALSE, CType_VOID))

\* The last iteration was over a non-alias `type` element that has a name
\* and no recognized category.
AtUncategorized ==
    /\ AtType
    /\ ~has_attribute(cursor.node, "alias")
    /\ has_attribute(cursor.node, "name")
    /\ \A c \in RecognizedCategories : attribute(cursor.node, "category") # Some(c)

\* The registry before the last iteration with the External of its node
\* appended.
WithExternal ==
    Push(cursor.before, "externals",
         [name |-> cursor.node.attrs["name"],
          requires |-> attribute(cursor.node, "requires")])

\* C9 as stated: a non-alias `type` element that has a name and whose
\* category is absent or not a recognized one is appended to externals.
C9_UncategorizedIsExternal == AtUncategorized => registry["vk"] = WithExternal

\* C9 as amended: a non-alias `type` element that has a name is appended
\* to externals, with its name and its optional `requires`, when it has no
\* `category` attribute; when its category is a value that is not a
\* recognized one the registry is unchanged and ingestion goes on.
C9_ExternalIffNoCategory ==
    AtUncategorized =>
        IF ~has_attribute(cursor.node, "category")
        THEN registry["vk"] = WithExternal
        ELSE registry["vk"] = cursor.before /\ pc # "abort"

\* An External with a `requires` has been recorded.
C9_Witness ==
    /\ AtUncategorized
    /\ ~has_attribute(cursor.node, "category")
    /\ Len(registry["vk"].externals) = 1
    /\ registry["vk"].externals[1].requires # None
    /\ Len(cursor.before.externals) = 0

\* A type of an unrecognized category has been passed over.
C9_WitnessIgnored ==
    /\ AtUncategorized
    /\ has_attribute(cursor.node, "category")
    /\ pc = "new_vk"

AliasCategories == {"bitmask", "handle", "enum", "struct"}

\* The names of the entities of any sequence of a registry whose entities
\* have names.
DefinedNames(reg) ==
    UNION {{reg[list][i].name : i \in DOMAIN reg[list]} :
              list \in {"externals", "basetypes", "bitmask_types", "bitmask_aliases",
                        "handles", "handle_aliases", "enum_types", "enum_aliases",
                        "funcpointers", "structs", "struct_aliases", "unions"}}

\* C10: a `type` element with an `alias` and a name is appended, as the
\* pair of its name and its alias target, to the alias sequence of its
\* category when that is bitmask, handle, enum or struct, and nothing
\* else changes; with another or no category the registry is unchanged
\* and ingestion goes on.
C10_AliasDispatch ==
    (AtType /\ has_attribute(cursor.node, "alias") /\ has_attribute(cursor.node, "name")) =>
        /\ pc # "abort"
        /\ IF \E c \in AliasCategories : attribute(cursor.node, "category") = Some(c)
           THEN registry["vk"] =
                    Push(cursor.before, cursor.node.attrs["category"] \o "_aliases",
                         [name |-> cursor.node.attrs["name"],
                          alias |-> cursor.node.attrs["alias"]])
           ELSE registry["vk"] = cursor.before

\* A struct alias has been recorded whose target names no entity of the
\* registry.
C10_Witness ==
    /\ AtType
    /\ has_attribute(cursor.node, "alias")
    /\ Len(registry["vk"].struct_aliases) = 1
    /\ Len(cursor.before.struct_aliases) = 0
    /\ registry["vk"].struct_aliases[1].alias \notin DefinedNames(registry["vk"])

\* An alias of category union has been passed over.
C10_WitnessIgnored ==
    /\ AtType
    /\ has_attribute(cursor.node, "alias")
    /\ attribute(cursor.node, "category") = Some("union")
    /\ registry["vk"] = cursor.before
    /\ pc = "new_vk"

(***************************************************************************)
(* Properties of the API filter (SpecApi).                                 *)
(***************************************************************************)
\* The node has no `api` attribute, or the target API stands in it from
\* the start or a comma to a comma or the end.
Applies(node) ==
    \/ "api" \notin DOMAIN node.attrs
    \/ LET v == node.attrs["api"]
       IN  \E i \in 1..Len(v), j \in 1..Len(v) :
               /\ SubSeq(v, i, j) = TargetApi
               /\ i = 1 \/ v[i - 1] = ","
               /\ j = Len(v) \/ v[j + 1] = ","

\* The node without the descendants under a node that does not apply,
\* and without any `api` attribute.
RECURSIVE Pruned(_)
Pruned(node) ==
    LET kept == SelectSeq(node.children, Applies)
    IN  [node EXCEPT !.attrs = [k \in DOMAIN node.attrs \ {"api"} |-> node.attrs[k]],
                     !.children = [i \in DOMAIN kept |-> Pruned(kept[i])]]

\* The registry after the entity of a node is recorded that nothing is
\* filtered out of.
RecordedWhole(reg, registry_child, node) ==
    CASE registry_child.tag = "types" -> PushType(reg, node, TargetApi)
      [] registry_child.tag = "commands" ->
             Push(reg, "commands", Command_from_node(node, TargetApi))
      [] registry_child.tag = "feature" ->
             Push(reg, "features", Feature_from_node(node, TargetApi))
      [] registry_child.tag = "enums" /\ node.tag = "enum" ->
             Push(reg, "constants", Constant_from_node(node))
      [] registry_child.tag = "enums" /\ attribute(node, "type") = Some("enum") ->
             Push(reg, "enums", Enum_from_node(node, TargetApi))
      [] registry_child.tag = "enums" /\ attribute(node, "type") = Some("bitmask") ->
             Push(reg, "bitmasks", BitMask_from_node(node, TargetApi))

\* C8: an iteration over a node records what the node holds once every
\* descendant under a node that does not apply to the target API is
\* removed, when the section and the node apply; otherwise it records
\* nothing.  A node applies when it has no `api` attribute or the target
\* is exactly one of its comma-separated values.
C8_ApiFilter ==
    cursor # NoCursor =>
        /\ pc # "abort"
        /\ registry["vk"] =
               IF Applies(cursor.registry_child) /\ Applies(cursor.node)
               THEN RecordedWhole(cursor.before, cursor.registry_child,
                                  Pruned(cursor.node))
               ELSE cursor.before

\* A struct under `api="vulkansc,vulkan"` is recorded without its member
\* of `api="vulkansc"`.
C8_Witness ==
    /\ AtType
    /\ attribute(cursor.node, "api") = Some(vulkansc \o <<",">> \o vulkan)
    /\ attribute(cursor.node.children[1], "api") = Some(vulkansc)
    /\ Len(registry["vk"].structs) = 1
    /\ Len(cursor.before.structs) = 0
    /\ registry["vk"].structs[1].members = <<>>

\* A feature is recorded whose only require is filtered out.
C8_WitnessRequire ==
    /\ cursor # NoCursor
    /\ cursor.node.tag = "feature"
    /\ Len(registry["vk"].features) = 1
    /\ registry["vk"].features[1].requires = <<>>

(***************************************************************************)
(* Properties of the pipeline over malformed nodes and filtered            *)
(* extensions (SpecIngest).                                                *)
(***************************************************************************)
\* The attribute `name` of the node is absent, or the target API stands
\* in it from the start or a comma to a comma or the end.
Lists(node, name) ==
    \/ name \notin DOMAIN node.attrs
    \/ LET v == node.attrs[name]
       IN  \E i \in 1..Len(v), j \in 1..Len(v) :
               /\ SubSeq(v, i, j) = TargetApi
               /\ i = 1 \/ v[i - 1] = ","
               /\ j = Len(v) \/ v[j + 1] = ","

\* The walker builds an entity from the node of the last iteration.
Processed ==
    /\ cursor # NoCursor
    /\ cursor.node.tag = "extension" => Lists(cursor.node, "supported")

\* A child of a `require` lacks the name its kind requires or has an
\* `offset` or `bitpos` that is no u8.
MalformedRequireChild(child) ==
    \/ "name" \notin DOMAIN child.attrs
    \/ "offset" \in DOMAIN child.attrs /\ child.attrs["offset"] \in NotU8Strings
    \/ /\ "offset" \notin DOMAIN child.attrs
       /\ "bitpos" \in DOMAIN child.attrs
       /\ child.attrs["bitpos"] \in NotU8Strings

\* The node, or a child of a `require` of it that applies to the target
\* API, lacks a required attribute or has a number that does not parse.
Malformed(node) ==
    \/ "name" \notin DOMAIN node.attrs
    \/ "number" \in DOMAIN node.attrs /\ node.attrs["number"] = <<"x">>
    \/ \E r \in DOMAIN node.children :
           /\ node.children[r].tag = "require"
           /\ \E c \in DOMAIN node.children[r].children :
                  /\ Lists(node.children[r].children[c], "api")
                  /\ MalformedRequireChild(node.children[r].children[c])

\* C11: once the walker has processed a malformed node the process has
\* aborted: Registry::parse of that library has not returned, no map is
\* built and the catalogue is empty; Analysis::new returns only when no
\* processed node was malformed.
C11_NoPartialResult ==
    (Processed /\ Malformed(cursor.node)) =>
        /\ pc = "abort"
        /\ ~Returned(cursor.id)
        /\ items = <<>>
        /\ \A id \in LibraryId : types_require_map[id] = <<>>

\* Library::new(Vk) has returned a Registry, Library::new(Video) failed
\* on a malformed node after a well-formed one.
C11_Witness ==
    /\ Processed
    /\ Malformed(cursor.node)
    /\ cursor.id = "video"
    /\ cursor.before # RegistryDefault
    /\ registry["vk"] # RegistryDefault
    /\ pc = "abort"

\* A feature with an `offset` that is no u8 has aborted ingestion.
C11_WitnessOffset ==
    /\ Processed
    /\ cursor.node.tag = "feature"
    /\ "offset" \in DOMAIN cursor.node.children[1].children[1].attrs
    /\ cursor.node.children[1].children[1].attrs["offset"] = <<"2", "5", "6">>
    /\ pc = "abort"

\* The names of the extensions of the documents that the filter removes.
FilteredExtensionNames ==
    {v[2] : v \in {w \in SupportedValues :
                      ~Lists(Element("extension", WithSupported(NoAttrs, w[1]), <<>>),
                             "supported")}}

\* C12: an iteration over a well-formed `extension` element appends its
\* Extension to Registry.extensions when `supported` is absent or lists
\* the target API, and changes nothing otherwise; no entry of a
\* name-to-RequiredBy map and no origin of a catalogue item is an
\* extension that the filter removes.
C12_ExtensionFilter ==
    /\ (/\ cursor # NoCursor
        /\ cursor.node.tag = "extension"
        /\ ~Malformed(cursor.node)) =>
           registry[cursor.id] =
               IF Lists(cursor.node, "supported")
               THEN Push(cursor.before, "extensions",
                         Extension_from_node(cursor.node, TargetApi))
               ELSE cursor.before
    /\ \A id \in LibraryId :
           \A name \in DOMAIN types_require_map[id] :
               types_require_map[id][name].kind = "Extension" =>
                   types_require_map[id][name].name \notin FilteredExtensionNames
    /\ \A i \in DOMAIN items :
           items[i].value.origin.required_by.kind = "Extension" =>
               items[i].value.origin.required_by.name \notin FilteredExtensionNames

\* Analysis::new returned a catalogue whose item has its origin in an
\* extension, after an extension with supported="disabled" that requires
\* the same struct was passed over.
C12_Witness ==
    /\ pc = "done"
    /\ cursor # NoCursor
    /\ cursor.node.tag = "extension"
    /\ attribute(cursor.node, "supported") = Some(disabled)
    /\ cursor.node.children # <<>>
    /\ registry[cursor.id] = cursor.before
    /\ Len(items) = 1
    /\ items[1].value.origin.required_by.kind = "Extension"

(***************************************************************************)
(* Properties of version parsing (SpecVersion).                            *)
(***************************************************************************)
\* The decimal numeral of 0 or 1.
Numeral(n) == IF n = 0 THEN <<"0">> ELSE <<"1">>

\* VK_VERSION_<major>_<minor>
Shaped(major, minor) == VK_VERSION_ \o Numeral(major) \o <<"_">> \o Numeral(minor)

WellShaped(s) == \E major, minor \in 0..1 : s = Shaped(major, minor)

\* The version that a well-shaped name spells.
Spelled(s) ==
    CHOOSE v \in [major : 0..1, minor : 0..1] : s = Shaped(v.major, v.minor)

\* C13: a feature whose name is VK_VERSION_<major>_<minor> is recorded
\* with the version (major, minor), a feature of any other name aborts
\* ingestion; a `depends` value of that shape is Depends::Version(major,
\* minor), any other value is Depends::Extension of the value.
C13_VersionShape ==
    (cursor # NoCursor /\ cursor.node.tag = "feature") =>
        IF cursor.node.children = <<>>
        THEN LET s == cursor.node.attrs["name"]
             IN  IF WellShaped(s)
                 THEN registry["vk"].features =
                          <<[version |-> Spelled(s), name |-> s, requires |-> <<>>]>>
                 ELSE pc = "abort" /\ registry["vk"] = cursor.before
        ELSE LET d == cursor.node.children[1].attrs["depends"]
             IN  /\ pc # "abort"
                 /\ registry["vk"].features[1].requires[1].depends =
                        <<IF WellShaped(d)
                          THEN [kind |-> "Version", version |-> Spelled(d)]
                          ELSE [kind |-> "Extension", name |-> d]>>

(***************************************************************************)
(* Properties of the declarator lexer (SpecLex).                           *)
(***************************************************************************)
\* CDecl::from_xml has lexed the children of cursor without failure.
Lexed == "failed" \in DOMAIN cursor /\ ~cursor.failed

\* The fixed table of the fix-up: spelling to kind.
FixUpTable ==
    [spelling \in {"STD_VIDEO_H264_MAX_NUM_LIST_REF", "STD_VIDEO_H265_MAX_NUM_LIST_REF",
                   "VkBool32", "PFN_vkVoidFunction"} |->
        IF spelling \in {"VkBool32", "PFN_vkVoidFunction"} THEN "TypeName" ELSE "ValueName"]

IsStray(tok, spelling) == tok.kind = "StrayIdent" /\ tok.text = spelling

\* C14: the tokens after the fix-up are the lexed tokens without every
\* StrayIdent spelled VKAPI_PTR, in the same order and with the same
\* text; a StrayIdent whose spelling is in the table has the kind of the
\* table, every other token has its kind unchanged.
C14_FixUpTable ==
    Lexed =>
        LET lexed == LexChildren(cursor.children)
            kept == SelectSeq(lexed, LAMBDA tok : ~IsStray(tok, "VKAPI_PTR"))
        IN  /\ Len(cursor.c_tokens) = Len(kept)
            /\ \A i \in DOMAIN kept :
                   /\ cursor.c_tokens[i].text = kept[i].text
                   /\ cursor.c_tokens[i].kind =
                          IF kept[i].kind = "StrayIdent" /\ kept[i].text \in DOMAIN FixUpTable
                          THEN FixUpTable[kept[i].text]
                          ELSE kept[i].kind

\* A StrayIdent VkBool32 has become a TypeName next to a DeclName
\* VkBool32 that kept its kind, and a StrayIdent VKAPI_PTR was removed
\* next to a TypeName VKAPI_PTR that was kept.
C14_Witness ==
    /\ Lexed
    /\ \E i \in DOMAIN LexChildren(cursor.children) :
           IsStray(LexChildren(cursor.children)[i], "VKAPI_PTR")
    /\ \E i \in DOMAIN LexChildren(cursor.children) :
           IsStray(LexChildren(cursor.children)[i], "VkBool32")
    /\ \E i \in DOMAIN cursor.c_tokens : cursor.c_tokens[i] = Tok("TypeName", "VKAPI_PTR")
    /\ \E i \in DOMAIN cursor.c_tokens : cursor.c_tokens[i] = Tok("TypeName", "VkBool32")
    /\ ~\E i \in DOMAIN cursor.c_tokens : cursor.c_tokens[i].kind = "StrayIdent"
                                              /\ cursor.c_tokens[i].text = "VKAPI_PTR"

\* The outcome of lexing and fix-up on `children`: failure, or the tokens.
LexOutcome(children) ==
    IF \E i \in DOMAIN children : ChildLexPanics(children[i])
    THEN [failed |-> TRUE, c_tokens |-> <<>>]
    ELSE [failed |-> FALSE, c_tokens |-> c_tokens_of(children)]

IsComment(piece) == piece.type = "Element" /\ piece.tag = "comment"

WithoutComments(children) == SelectSeq(children, LAMBDA piece : ~IsComment(piece))

\* An element with exactly one child, a text.
HasOneText(piece) == Len(piece.children) = 1 /\ piece.children[1].type = "Text"

\* The kind of the token of a `type`, `enum` or `name` element.
KindOfTag == [type |-> "TypeName", enum |-> "ValueName", name |-> "DeclName"]

\* A `type`, `enum` or `name` element without attributes, with one text.
IsNameElement(piece) ==
    /\ piece.type = "Element"
    /\ piece.tag \in DOMAIN KindOfTag
    /\ piece.attrs = NoAttrs
    /\ HasOneText(piece)

\* C15 as stated: for any content the outcome is that of the content
\* without its `comment` elements.
C15_CommentsDropped ==
    "failed" \in DOMAIN cursor =>
        [failed |-> cursor.failed, c_tokens |-> cursor.c_tokens]
            = LexOutcome(WithoutComments(cursor.children))

\* C15 as amended: when no `comment` element has an attribute the outcome
\* is that of the content without its `comment` elements; content of
\* attribute-less `comment` elements and of attribute-less `type`, `enum`
\* and `name` elements with exactly one text child lexes to one TypeName,
\* ValueName or DeclName token per such element, in order; an element
\* with an attribute (a `comment` too), of another tag, or a `type`,
\* `enum` or `name` without exactly one text child is a lex failure.
C15_AttributelessCommentsDropped ==
    "failed" \in DOMAIN cursor =>
        LET children == cursor.children
            elements == SelectSeq(children, LAMBDA piece : piece.type = "Element")
            names == WithoutComments(children)
        IN  /\ (\A i \in DOMAIN children :
                    IsComment(children[i]) => children[i].attrs = NoAttrs) =>
                   [failed |-> cursor.failed, c_tokens |-> cursor.c_tokens]
                       = LexOutcome(names)
            /\ (\A i \in DOMAIN children :
                    \/ IsComment(children[i]) /\ children[i].attrs = NoAttrs
                    \/ IsNameElement(children[i])) =>
                   /\ ~cursor.failed
                   /\ cursor.c_tokens =
                          [i \in DOMAIN names |->
                              Tok(KindOfTag[names[i].tag], names[i].children[1].text)]
            /\ (\E i \in DOMAIN elements :
                    ~IsNameElement(elements[i])
                        /\ ~(IsComment(elements[i]) /\ elements[i].attrs = NoAttrs)) =>
                   cursor.failed /\ pc = "abort"

\* A `comment` with a text between a `type` and a `name` element left no
\* token: the tokens are the TypeName and the DeclName.
C15_Witness ==
    /\ Lexed
    /\ Len(cursor.children) = 3
    /\ IsComment(cursor.children[2])
    /\ cursor.children[2].children # <<>>
    /\ cursor.c_tokens = <<Tok("TypeName", "int"), Tok("DeclName", "VkBool32")>>
    /\ pc = "parsed"

(***************************************************************************)
(* Properties of the groups (SpecGroups).                                  *)
(***************************************************************************)
\* The last iteration recorded the entity of its node.
RecordedNode(tag) ==
    /\ cursor # NoCursor
    /\ cursor.node.tag = tag
    /\ registry["vk"] # cursor.before

Has(node, name) == name \in DOMAIN node.attrs

\* The names of the entities of a sequence.
NamesOf(seq) == {seq[i].name : i \in DOMAIN seq}

\* C16: in a recorded BitMask, the variants with `alias` are its aliases,
\* those without `alias` and with `value` its values, the others its
\* bits, each in document order, over the `enum` children that apply to
\* the target API; when these children have distinct names no name is in
\* two of the three sequences.
C16_VariantCategories ==
    RecordedNode("enums") =>
        LET bitmask == Last(registry["vk"].bitmasks)
            variants == SelectSeq(cursor.node.children,
                                  LAMBDA c : c.tag = "enum" /\ Lists(c, "api"))
            als == SelectSeq(variants, LAMBDA v : Has(v, "alias"))
            vals == SelectSeq(variants, LAMBDA v : ~Has(v, "alias") /\ Has(v, "value"))
            bits == SelectSeq(variants, LAMBDA v : ~Has(v, "alias") /\ ~Has(v, "value"))
        IN  /\ bitmask.aliases =
                   [i \in DOMAIN als |->
                       [name |-> als[i].attrs["name"], alias |-> als[i].attrs["alias"]]]
            /\ bitmask.values =
                   [i \in DOMAIN vals |->
                       [value |-> vals[i].attrs["value"], name |-> vals[i].attrs["name"]]]
            /\ bitmask.bits =
                   [i \in DOMAIN bits |->
                       [bitpos |-> bits[i].attrs["bitpos"], name |-> bits[i].attrs["name"]]]
            /\ Len(bitmask.aliases) + Len(bitmask.values) + Len(bitmask.bits)
                   = Len(variants)
            /\ NoDuplicates([i \in DOMAIN variants |-> variants[i].attrs["name"]]) =>
                   /\ NamesOf(bitmask.aliases) \cap NamesOf(bitmask.values) = {}
                   /\ NamesOf(bitmask.aliases) \cap NamesOf(bitmask.bits) = {}
                   /\ NamesOf(bitmask.values) \cap NamesOf(bitmask.bits) = {}

\* A variant with alias, value and bitpos is an alias only, and a variant
\* with value and bitpos is a value only.
C16_Witness ==
    /\ RecordedNode("enums")
    /\ Len(cursor.node.children) = 2
    /\ DOMAIN cursor.node.children[1].attrs = {"name", "alias", "value", "bitpos"}
    /\ DOMAIN cursor.node.children[2].attrs = {"name", "value", "bitpos"}
    /\ Len(Last(registry["vk"].bitmasks).aliases) = 1
    /\ Len(Last(registry["vk"].bitmasks).values) = 1
    /\ Last(registry["vk"].bitmasks).bits = <<>>

\* The Depends entries that the `depends` of a `require` stands for.
DependsOf(require) ==
    LET d == IF Has(require, "depends") THEN Some(require.attrs["depends"]) ELSE None
    IN  (CHOOSE v \in DependsValues : v[1] = d)[2]

\* C17: the Require of a recorded feature has the API-matching `enum`
\* children with `offset` as its enum_variants, those without `offset`
\* and with `bitpos` as its bitpositions, the other `enum` children as
\* its constants, the `type` children as its types and the `command`
\* children as its commands, each in document order, and nothing of any
\* other child; its depends are the entries of the comma-separated
\* values of `depends`, none when the attribute is missing.
C17_RequireClassification ==
    RecordedNode("feature") =>
        LET require == Last(registry["vk"].features).requires[1]
            node == cursor.node.children[1]
            kids == SelectSeq(node.children, LAMBDA c : Lists(c, "api"))
            Of(tag) == SelectSeq(kids, LAMBDA c : c.tag = tag)
            variants == SelectSeq(Of("enum"), LAMBDA c : Has(c, "offset"))
            bitposs == SelectSeq(Of("enum"), LAMBDA c : ~Has(c, "offset") /\ Has(c, "bitpos"))
            consts == SelectSeq(Of("enum"), LAMBDA c : ~Has(c, "offset") /\ ~Has(c, "bitpos"))
        IN  /\ require.enum_variants =
                   [i \in DOMAIN variants |->
                       [name |-> variants[i].attrs["name"], offset |-> 1, extends |-> "VkE"]]
            /\ require.bitpositions =
                   [i \in DOMAIN bitposs |->
                       [name |-> bitposs[i].attrs["name"], bitpos |-> 2, extends |-> "VkE"]]
            /\ require.constants =
                   [i \in DOMAIN consts |-> [name |-> consts[i].attrs["name"], value |-> None]]
            /\ require.types =
                   [i \in DOMAIN Of("type") |-> [name |-> Of("type")[i].attrs["name"]]]
            /\ require.commands =
                   [i \in DOMAIN Of("command") |-> [name |-> Of("command")[i].attrs["name"]]]
            /\ require.depends = DependsOf(node)
            /\ Len(require.enum_variants) + Len(require.bitpositions)
                   + Len(require.constants) + Len(require.types) + Len(require.commands)
                   <= Len(kids)

\* A require with two depends values, whose `enum` child with offset and
\* bitpos is an enum variant only, next to a comment that left nothing.
C17_Witness ==
    /\ RecordedNode("feature")
    /\ Len(cursor.node.children[1].children) = 2
    /\ DOMAIN cursor.node.children[1].children[1].attrs
           = {"name", "extends", "offset", "bitpos"}
    /\ cursor.node.children[1].children[2].tag = "comment"
    /\ Len(Last(registry["vk"].features).requires[1].depends) = 2
    /\ Len(Last(registry["vk"].features).requires[1].enum_variants) = 1
    /\ Last(registry["vk"].features).requires[1].bitpositions = <<>>

====
